---- MODULE Spec2Model ----
(***************************************************************************)
(* The pEOS token contract (contract/src/token.cpp, include/token.hpp):    *)
(* account ledger, vesting budget, bearer notes (UTXO), staking, dividends *)
(* and the delayed refund queue.                                           *)
(*                                                                         *)
(* One step of the model is one transaction: a contract action together    *)
(* with the inline actions it sends, which the chain runs after the action *)
(* body, in the order sent, and which abort the whole transaction when one *)
(* of them fails.  Amounts are counted in the asset's smallest unit; the   *)
(* budget ceilings, the clock and the width of the floating-point          *)
(* accumulator are scaled down together so that every ceiling and every    *)
(* rounding step is met by small numbers.                                  *)
(***************************************************************************)
EXTENDS Integers, Sequences, FiniteSets, TLC

VARIABLES stat, accounts, vest, utxos, utxoglobals, staked, dividend,
          refunds, notelog, now, steps

tables == <<stat, accounts, vest, utxos, utxoglobals, staked, dividend, refunds>>
vars == <<stat, accounts, vest, utxos, utxoglobals, staked, dividend,
          refunds, notelog, now, steps>>

(***************************************************************************)
(* Names, symbols, assets                                                  *)
(***************************************************************************)
PEOS_CONTRACT_ACCOUNT == "thepeostoken"
PEOS_MARKETING_ACCOUNT == "peosmarketin"
PEOS_TEAMFUND_ACCOUNT == "peosteamfund"
Self == PEOS_CONTRACT_ACCOUNT
Alice == "alice"
Bob == "bob"
NoName == ""

\* the accounts that exist on the chain (is_account)
Names ==
  {PEOS_CONTRACT_ACCOUNT, PEOS_MARKETING_ACCOUNT, PEOS_TEAMFUND_ACCOUNT, Alice, Bob}

Symbol(c, p) == [code |-> c, prec |-> p]
PEOS_SYMBOL == Symbol("PEOS", 4)
SYM_SYMBOL == Symbol("SYM", 4)
BadSymbol == Symbol("peos", 4)
Codes == {"PEOS", "SYM"}

Asset(n, sym) == [amount |-> n, symbol |-> sym]

\* symbol::is_valid: the code is made of capital letters
symbol_is_valid(sym) == sym.code \in Codes
\* asset::max_amount is 2^62 - 1 in the library; no amount of the model comes near
max_amount == 1073741823
asset_is_valid(a) ==
  /\ -max_amount <= a.amount
  /\ a.amount <= max_amount
  /\ symbol_is_valid(a.symbol)

(***************************************************************************)
(* Tables (multi_index): partial functions from the primary key to the row *)
(***************************************************************************)
EmptyTable == [x \in {} |-> 0]
Has(t, k) == k \in DOMAIN t
Put(t, k, row) == [x \in (DOMAIN t) \cup {k} |-> IF x = k THEN row ELSE t[x]]
Erase(t, k) == [x \in (DOMAIN t) \ {k} |-> t[x]]

\* the store a transaction works on: the tables, the inline actions sent so
\* far (inl), a scratch value of the running action (acc), what a field that
\* the code never assigns turns out to hold (junk), and the message of the
\* first failed check (err)
Store ==
  [stat |-> stat, accounts |-> accounts, vest |-> vest, utxos |-> utxos,
   utxoglobals |-> utxoglobals, staked |-> staked, dividend |-> dividend,
   refunds |-> refunds, notelog |-> notelog, inl |-> <<>>, acc |-> 0, junk |-> 0,
   err |-> "ok"]

Ok(s) == s.err = "ok"
\* eosio::check failed with msg: the first failure is the one reported
Fail(s, msg) == IF Ok(s) THEN [s EXCEPT !.err = msg] ELSE s
\* the outcome of the checks an action makes before it writes
Checked(s, e) == IF e = "ok" THEN s ELSE Fail(s, e)
is_account(n) == n \in Names

\* SEND_INLINE_ACTION(*this, transfer, {{actor, active}}, {from, to, quantity, memo})
send_inline_transfer(s, actor, from, to, quantity, memo) ==
  IF Ok(s)
  THEN [s EXCEPT !.inl = Append(@, [auth |-> {actor}, from |-> from, to |-> to,
                                    quantity |-> quantity, memo |-> memo])]
  ELSE s

(***************************************************************************)
(* Balance engine                                                          *)
(***************************************************************************)
\* sub_balance as it would be without the overdraft check
sub_balance_unchecked(s, owner, value) ==
  LET k == <<owner, value.symbol.code>>
  IN IF ~Ok(s) THEN s
     ELSE IF ~Has(s.accounts, k) THEN Fail(s, "no balance object found")
     ELSE [s EXCEPT !.accounts =
             Put(@, k, [balance |-> Asset(@[k].balance.amount - value.amount,
                                          @[k].balance.symbol),
                        claimed |-> TRUE])]

sub_balance(s, owner, value) ==
  LET k == <<owner, value.symbol.code>>
  IN IF ~Ok(s) THEN s
     ELSE IF ~Has(s.accounts, k) THEN Fail(s, "no balance object found")
     ELSE IF ~(s.accounts[k].balance.amount >= value.amount) THEN Fail(s, "overdrawn balance")
     ELSE [s EXCEPT !.accounts =
             Put(@, k, [balance |-> Asset(@[k].balance.amount - value.amount,
                                          @[k].balance.symbol),
                        claimed |-> TRUE])]

add_balance(s, owner, value, claimed) ==
  LET k == <<owner, value.symbol.code>>
  IN IF ~Ok(s) THEN s
     ELSE IF ~Has(s.accounts, k)
     THEN [s EXCEPT !.accounts = Put(@, k, [balance |-> value, claimed |-> claimed])]
     ELSE [s EXCEPT !.accounts =
             Put(@, k, [balance |-> Asset(@[k].balance.amount + value.amount,
                                          @[k].balance.symbol),
                        claimed |-> @[k].claimed])]

do_claim(s, auth, owner, code, payer) ==
  LET k == <<owner, code>>
  IN IF ~Ok(s) THEN s
     ELSE IF payer \notin auth THEN Fail(s, "missing required authority")
     ELSE IF code \notin Codes THEN Fail(s, "Invalid symbol name")
     ELSE IF ~Has(s.accounts, k) THEN Fail(s, "no balance object found")
     ELSE IF ~s.accounts[k].claimed
     THEN [s EXCEPT !.accounts =
             Put(Erase(@, k), k, [balance |-> @[k].balance, claimed |-> TRUE])]
     ELSE s

claim(s, auth, owner, code) == do_claim(s, auth, owner, code, owner)

\* has_auth(to) ? to : from
transfer_payer(auth, from, to) == IF to \in auth THEN to ELSE from

\* if (from != st.issuer) do_claim(to, sym, from)
claim_recipient(s, auth, from, to, code, issuer) ==
  IF from # issuer THEN do_claim(s, auth, to, code, from) ELSE s

transfer(s, auth, from, to, quantity, memo) ==
  LET code == quantity.symbol.code
      st == s.stat[code]
      e == IF from = to THEN "cannot transfer to self"
           ELSE IF from \notin auth THEN "missing required authority"
           ELSE IF ~is_account(to) THEN "to account does not exist"
           ELSE IF ~Has(s.stat, code) THEN "unable to find key"
           ELSE IF ~asset_is_valid(quantity) THEN "invalid quantity"
           ELSE IF ~(quantity.amount > 0) THEN "must transfer positive quantity"
           ELSE IF quantity.symbol # st.supply.symbol THEN "symbol precision mismatch"
           ELSE IF ~(memo <= 256) THEN "memo has more than 256 bytes"
           ELSE "ok"
  IN IF ~Ok(s) THEN s
     ELSE IF e # "ok" THEN Fail(s, e)
     ELSE claim_recipient(
            add_balance(sub_balance(do_claim(s, auth, from, code, from), from, quantity),
                        to, quantity, transfer_payer(auth, from, to) # st.issuer),
            auth, from, to, code, st.issuer)

open(s, auth, owner, symbol, ram_payer) ==
  LET k == <<owner, symbol.code>>
  IN IF ~Ok(s) THEN s
     ELSE IF ram_payer \notin auth THEN Fail(s, "missing required authority")
     ELSE IF ~Has(s.stat, symbol.code) THEN Fail(s, "symbol does not exist")
     ELSE IF s.stat[symbol.code].supply.symbol # symbol THEN Fail(s, "symbol precision mismatch")
     ELSE IF ~Has(s.accounts, k)
     THEN [s EXCEPT !.accounts = Put(@, k, [balance |-> Asset(0, symbol), claimed |-> TRUE])]
     ELSE s

close(s, auth, owner, symbol) ==
  LET k == <<owner, symbol.code>>
  IN IF ~Ok(s) THEN s
     ELSE IF owner \notin auth THEN Fail(s, "missing required authority")
     ELSE IF ~Has(s.accounts, k)
     THEN Fail(s, "Balance row already deleted or never existed. Action won't have any effect.")
     ELSE IF s.accounts[k].balance.amount # 0
     THEN Fail(s, "Cannot close because the balance is not zero.")
     ELSE [s EXCEPT !.accounts = Erase(@, k)]

(***************************************************************************)
(* Issuance and supply                                                     *)
(***************************************************************************)
create(s, auth, issuer, maximum_supply) ==
  LET sym == maximum_supply.symbol
  IN IF ~Ok(s) THEN s
     ELSE IF Self \notin auth THEN Fail(s, "missing required authority")
     ELSE IF ~symbol_is_valid(sym) THEN Fail(s, "invalid symbol name")
     ELSE IF ~asset_is_valid(maximum_supply) THEN Fail(s, "invalid supply")
     ELSE IF ~(maximum_supply.amount > 0) THEN Fail(s, "max-supply must be positive")
     ELSE IF Has(s.stat, sym.code) THEN Fail(s, "token with symbol already exists")
     ELSE [s EXCEPT !.stat = Put(@, sym.code, [supply |-> Asset(0, sym),
                                               max_supply |-> maximum_supply,
                                               issuer |-> issuer])]

\* update as it would be without the check of the maximum against the supply
update_any_maximum(s, auth, issuer, maximum_supply) ==
  LET code == maximum_supply.symbol.code
  IN IF ~Ok(s) THEN s
     ELSE IF Self \notin auth THEN Fail(s, "missing required authority")
     ELSE IF ~Has(s.stat, code) THEN Fail(s, "token with symbol doesn't exists")
     ELSE [s EXCEPT !.stat = Put(@, code, [supply |-> @[code].supply,
                                           max_supply |-> maximum_supply,
                                           issuer |-> issuer])]

update(s, auth, issuer, maximum_supply) ==
  LET sym == maximum_supply.symbol
      st == s.stat[sym.code]
  IN IF ~Ok(s) THEN s
     ELSE IF Self \notin auth THEN Fail(s, "missing required authority")
     ELSE IF ~symbol_is_valid(sym) THEN Fail(s, "invalid symbol name")
     ELSE IF ~asset_is_valid(maximum_supply) THEN Fail(s, "invalid supply")
     ELSE IF ~(maximum_supply.amount > 0) THEN Fail(s, "max-supply must be positive")
     ELSE IF ~Has(s.stat, sym.code) THEN Fail(s, "token with symbol doesn't exists")
     ELSE IF ~(st.supply.amount <= maximum_supply.amount)
     THEN Fail(s, "max_supply must be larger that available supply")
     ELSE IF maximum_supply.symbol # st.supply.symbol THEN Fail(s, "symbol precission mismatch")
     ELSE [s EXCEPT !.stat = Put(@, sym.code, [supply |-> st.supply,
                                               max_supply |-> maximum_supply,
                                               issuer |-> issuer])]

\* a supply that is left as it was
add_supply_none(s, code, delta) == s

\* statstable.modify: s.supply += delta
add_supply(s, code, delta) ==
  IF ~Ok(s) THEN s
  ELSE [s EXCEPT !.stat = Put(@, code,
          [@[code] EXCEPT !.supply = Asset(@.amount + delta, @.symbol)])]

retire(s, auth, quantity, memo) ==
  LET sym == quantity.symbol
      st == s.stat[sym.code]
      e == IF ~symbol_is_valid(sym) THEN "invalid symbol name"
           ELSE IF ~(memo <= 256) THEN "memo has more than 256 bytes"
           ELSE IF ~Has(s.stat, sym.code) THEN "token with symbol does not exist"
           ELSE IF st.issuer \notin auth THEN "missing required authority"
           ELSE IF ~asset_is_valid(quantity) THEN "invalid quantity"
           ELSE IF ~(quantity.amount > 0) THEN "must retire positive quantity"
           ELSE IF quantity.symbol # st.supply.symbol THEN "symbol precision mismatch"
           ELSE "ok"
  IN IF ~Ok(s) THEN s
     ELSE IF e # "ok" THEN Fail(s, e)
     ELSE sub_balance(add_supply(s, sym.code, -quantity.amount), st.issuer, quantity)

\* add_balance(st.issuer, owner_acc->balance, st.issuer, true); acnts.erase(owner_acc)
recover_row(s, k, issuer) ==
  [add_balance(s, issuer, s.accounts[k].balance, TRUE) EXCEPT !.accounts = Erase(@, k)]

recover(s, auth, owner, code) ==
  LET k == <<owner, code>>
  IN IF ~Ok(s) THEN s
     ELSE IF code \notin Codes THEN Fail(s, "invalid symbol name")
     ELSE IF ~Has(s.stat, code) THEN Fail(s, "token with symbol does not exist")
     ELSE IF s.stat[code].issuer \notin auth THEN Fail(s, "missing required authority")
     ELSE IF Has(s.accounts, k) /\ ~s.accounts[k].claimed
     THEN recover_row(s, k, s.stat[code].issuer)
     ELSE s

(***************************************************************************)
(* double: a binary floating-point number <<m, e>> = m * 2^e with at most  *)
(* MantBits significant bits, rounded to nearest, ties to even, after      *)
(* every operation (IEEE 754; binary64 carries 53 bits, the model fewer,   *)
(* in step with its smaller amounts).  m is odd or the number is zero, so  *)
(* equal numbers are equal pairs.                                          *)
(***************************************************************************)
MantBits == 13

Abs(n) == IF n < 0 THEN -n ELSE n
Sign(n) == IF n < 0 THEN -1 ELSE 1

RECURSIVE BitLen(_)
BitLen(n) == IF n = 0 THEN 0 ELSE 1 + BitLen(n \div 2)

RECURSIVE Canon(_, _)
Canon(m, e) ==
  IF m = 0 THEN <<0, 0>>
  ELSE IF m % 2 = 0 THEN Canon(m \div 2, e + 1)
  ELSE <<m, e>>

\* n / 2^j (n >= 0, j >= 1) rounded to the nearest integer, ties to even
RoundShift(n, j) ==
  LET q == n \div (2 ^ j)
      r == n % (2 ^ j)
      half == 2 ^ (j - 1)
  IN IF r > half \/ (r = half /\ q % 2 = 1) THEN q + 1 ELSE q

\* the exact value m * 2^e rounded to MantBits bits
FRound(m, e) ==
  IF BitLen(Abs(m)) <= MantBits THEN Canon(m, e)
  ELSE LET j == BitLen(Abs(m)) - MantBits
       IN Canon(Sign(m) * RoundShift(Abs(m), j), e + j)

\* double(n) of an integer
FromInt(n) == FRound(n, 0)
FOne == FromInt(1)

FAdd(a, b) ==
  LET e == IF a[2] < b[2] THEN a[2] ELSE b[2]
  IN FRound(a[1] * 2 ^ (a[2] - e) + b[1] * 2 ^ (b[2] - e), e)

FSub(a, b) == FAdd(a, <<-b[1], b[2]>>)

FMul(a, b) == FRound(a[1] * b[1], a[2] + b[2])

\* a / b, b # 0: the quotient to MantBits + 1 bits or more, with a sticky bit
\* for the remainder, then rounded
FDiv(a, b) ==
  LET n == Abs(a[1])
      d == Abs(b[1])
      want == MantBits + 1 + BitLen(d) - BitLen(n)
      s == IF want < 0 THEN 0 ELSE want
      q == (n * 2 ^ s) \div d
      r == (n * 2 ^ s) % d
      sticky == IF r = 0 THEN 0 ELSE 1
  IN IF n = 0 THEN <<0, 0>>
     ELSE FRound(Sign(a[1]) * Sign(b[1]) * (2 * q + sticky), a[2] - b[2] - s - 1)

\* a >= b
FGe(a, b) ==
  LET e == IF a[2] < b[2] THEN a[2] ELSE b[2]
  IN a[1] * 2 ^ (a[2] - e) >= b[1] * 2 ^ (b[2] - e)

\* (int64) x: towards zero
FTrunc(a) ==
  IF a[2] >= 0 THEN a[1] * 2 ^ a[2]
  ELSE Sign(a[1]) * (Abs(a[1]) \div 2 ^ (-a[2]))

(***************************************************************************)
(* Vesting budget                                                          *)
(***************************************************************************)
seconds_per_day == 1
refund_delay == 3 * seconds_per_day

\* the three ceilings, the vesting epoch and the vesting period (in days)
MarketingClaimable == 6
TeamMaxClaimable == 3
ContractClaimable == 3
base_time == 1
vesting_days == 2

\* a ceiling that does not move with the time
team_claimable_full(t) == TeamMaxClaimable

\* int64_t(max_claimable * double(now() - base_time) / (400 * seconds_per_day))
team_claimable(t) ==
  FTrunc(FDiv(FMul(FromInt(TeamMaxClaimable), FromInt(t - base_time)),
              FromInt(vesting_days * seconds_per_day)))

vested_account(account) ==
  account \in {PEOS_MARKETING_ACCOUNT, PEOS_TEAMFUND_ACCOUNT, PEOS_CONTRACT_ACCOUNT}

\* the row of the teamvest table after the issue is recorded
record_issued(s, account, quantity) ==
  IF ~Ok(s) \/ ~vested_account(account) THEN s
  ELSE IF ~Has(s.vest, account)
  THEN [s EXCEPT !.vest = Put(@, account, [account |-> account, issued |-> quantity])]
  ELSE IF s.vest[account].issued.symbol # quantity.symbol
  THEN Fail(s, "attempt to add asset with different symbol")
  ELSE [s EXCEPT !.vest = Put(@, account,
          [account |-> account,
           issued |-> Asset(@[account].issued.amount + quantity.amount, quantity.symbol)])]

\* the ceiling check as it would be if it compared the quantity alone
check_claimable_quantity_only(s, t, account, claimed, quantity) ==
  IF ~Ok(s) THEN s
  ELSE IF account = PEOS_MARKETING_ACCOUNT
  THEN IF MarketingClaimable >= quantity.amount THEN s
       ELSE Fail(s, "pEOS marketing/operations budget claimed")
  ELSE IF account = PEOS_TEAMFUND_ACCOUNT
  THEN IF team_claimable(t) >= quantity.amount THEN s
       ELSE Fail(s, "pEOS team can only issue their tokens over 400 days")
  ELSE IF account = PEOS_CONTRACT_ACCOUNT
  THEN IF ContractClaimable >= quantity.amount THEN s
       ELSE Fail(s, "pEOS token budget for <1.0000 PEOS airdrop accounts and contracts claimed")
  ELSE Fail(s, "token issuing era finished")

\* the ceiling check; claimed is what the table held before the issue
check_claimable(s, t, account, claimed, quantity) ==
  IF ~Ok(s) THEN s
  ELSE IF account = PEOS_MARKETING_ACCOUNT
  THEN IF MarketingClaimable >= claimed + quantity.amount THEN s
       ELSE Fail(s, "pEOS marketing/operations budget claimed")
  ELSE IF account = PEOS_TEAMFUND_ACCOUNT
  THEN IF team_claimable(t) >= claimed + quantity.amount THEN s
       ELSE Fail(s, "pEOS team can only issue their tokens over 400 days")
  ELSE IF account = PEOS_CONTRACT_ACCOUNT
  THEN IF ContractClaimable >= claimed + quantity.amount THEN s
       ELSE Fail(s, "pEOS token budget for <1.0000 PEOS airdrop accounts and contracts claimed")
  ELSE Fail(s, "token issuing era finished")

\* the validation as it would be with no check for the accounts without a budget
validate_budgets_only(s, t, account, quantity) ==
  IF ~Ok(s) \/ ~vested_account(account) THEN s
  ELSE check_claimable(record_issued(s, account, quantity), t, account,
                       IF Has(s.vest, account) THEN s.vest[account].issued.amount ELSE 0,
                       quantity)

validate_peos_team_vesting(s, t, account, quantity) ==
  IF ~Ok(s) THEN s
  ELSE check_claimable(record_issued(s, account, quantity), t, account,
                       IF vested_account(account) /\ Has(s.vest, account)
                       THEN s.vest[account].issued.amount ELSE 0,
                       quantity)

\* if (to != st.issuer) SEND_INLINE_ACTION(transfer, {st.issuer, to, quantity, memo})
send_to_recipient(s, issuer, to, quantity, memo) ==
  IF to # issuer THEN send_inline_transfer(s, issuer, issuer, to, quantity, memo) ELSE s

issue(s, auth, t, to, quantity, memo) ==
  LET sym == quantity.symbol
      st == s.stat[sym.code]
      e == IF ~symbol_is_valid(sym) THEN "invalid symbol name"
           ELSE IF ~(memo <= 256) THEN "memo has more than 256 bytes"
           ELSE IF ~Has(s.stat, sym.code)
           THEN "token with symbol does not exist, create token before issue"
           ELSE IF st.issuer \notin auth THEN "missing required authority"
           ELSE IF ~asset_is_valid(quantity) THEN "invalid quantity"
           ELSE IF ~(quantity.amount > 0) THEN "must issue positive quantity"
           ELSE IF quantity.symbol # st.supply.symbol THEN "symbol precision mismatch"
           ELSE IF ~(quantity.amount <= st.max_supply.amount - st.supply.amount)
           THEN "quantity exceeds available supply"
           ELSE "ok"
  IN IF ~Ok(s) THEN s
     ELSE IF e # "ok" THEN Fail(s, e)
     ELSE validate_peos_team_vesting(
            send_to_recipient(
              add_balance(add_supply(s, sym.code, quantity.amount), st.issuer, quantity, TRUE),
              st.issuer, to, quantity, memo),
            t, to, quantity)

(***************************************************************************)
(* A transaction: the action body, then the inline actions it sent (all of *)
(* them transfers), in order; the first failure aborts everything.         *)
(***************************************************************************)
RECURSIVE RunInline(_)
RunInline(s) ==
  IF ~Ok(s) \/ s.inl = <<>> THEN s
  ELSE RunInline(transfer([s EXCEPT !.inl = Tail(@)], Head(s.inl).auth, Head(s.inl).from,
                          Head(s.inl).to, Head(s.inl).quantity, Head(s.inl).memo))

(***************************************************************************)
(* Bearer notes                                                            *)
(***************************************************************************)
Keys == {"K1", "K2"}
\* what recover_key yields for a signature made over another digest
StrangerKey == "K?"

\* pack(outputs): the length, then the fields of every output in order
RECURSIVE pack_fields(_)
pack_fields(outs) ==
  IF outs = <<>> THEN <<>>
  ELSE <<Head(outs).pk, Head(outs).account, Head(outs).quantity.amount,
         Head(outs).quantity.symbol.prec, Head(outs).quantity.symbol.code>>
       \o pack_fields(Tail(outs))
pack(outs) == <<Len(outs)>> \o pack_fields(outs)

\* sha256, taken to be free of collisions
sha256(bytes) == [sha256 |-> bytes]

\* sign_data as it would be if the digest of the outputs were left out
sign_data_id_only(id, outputsDigest) == <<id>>

sign_data(id, outputsDigest) == <<id, outputsDigest>>

\* the signature the holder of `key` makes over `digest`
Sign256(key, digest) == [key |-> key, digest |-> digest]
recover_key(digest, sig) == IF sig.digest = digest THEN sig.key ELSE StrangerKey

\* getNextUTXOId: the id it returns (ret) ...
getNextUTXOId(s) == IF Has(s.utxoglobals, 0) THEN s.utxoglobals[0].next_pk ELSE 0
\* ... and the utxoglobals table it leaves.  The row it emplaces gets next_pk
\* only: its id, the primary key, is never assigned and is whatever the memory
\* of the new row holds (s.junk); the chain refuses a key the table holds.
bump_next_pk(s) ==
  IF ~Ok(s) THEN s
  ELSE IF Has(s.utxoglobals, 0)
  THEN [s EXCEPT !.utxoglobals = Put(@, 0, [id |-> 0, next_pk |-> @[0].next_pk + 1])]
  ELSE IF Has(s.utxoglobals, s.junk) THEN Fail(s, "primary key already exists")
  ELSE [s EXCEPT !.utxoglobals = Put(@, s.junk, [id |-> s.junk, next_pk |-> 1])]

\* the row of the utxos table for a new note
put_utxo(s, id, pk, quantity) ==
  IF ~Ok(s) THEN s
  ELSE IF Has(s.utxos, id) THEN Fail(s, "primary key already exists")
  ELSE [s EXCEPT !.utxos = Put(@, id, [id |-> id, pk |-> pk, amount |-> quantity]),
                 !.notelog = Append(@, id)]

\* utxostable.emplace(payer, u.id = getNextUTXOId(); u.pk = pk; u.amount = quantity)
emplace_utxo(s, pk, quantity) == put_utxo(bump_next_pk(s), getNextUTXOId(s), pk, quantity)

\* the loop over the inputs; inputSum is kept in s.acc
RECURSIVE spend_inputs(_, _, _)
spend_inputs(s, inputs, outputsDigest) ==
  LET in == Head(inputs)
      digest == sha256(sign_data(in.id, outputsDigest))
      utxo == s.utxos[in.id]
  IN IF ~Ok(s) \/ inputs = <<>> THEN s
     ELSE IF ~Has(s.utxos, in.id) THEN Fail(s, "Unknown UTXO")
     ELSE IF recover_key(digest, in.sig) # utxo.pk
     THEN Fail(s, "Error expected key different than recovered key")
     ELSE IF utxo.amount.symbol # s.acc.symbol
     THEN Fail(s, "attempt to add asset with different symbol")
     ELSE spend_inputs([s EXCEPT !.utxos = Erase(@, in.id),
                                 !.acc = Asset(@.amount + utxo.amount.amount, @.symbol)],
                       Tail(inputs), outputsDigest)

\* one output: an inline transfer to the named account, or a new note
make_output(s, o, memo) ==
  IF o.account # NoName
  THEN send_inline_transfer(s, Self, Self, o.account, o.quantity, memo)
  ELSE emplace_utxo(s, o.pk, o.quantity)

\* the loop over the outputs
RECURSIVE make_outputs(_, _, _)
make_outputs(s, outputs, memo) ==
  LET q == Head(outputs).quantity
  IN IF ~Ok(s) \/ outputs = <<>> THEN s
     ELSE IF ~asset_is_valid(q) THEN Fail(s, "Invalid asset")
     ELSE IF q.symbol # PEOS_SYMBOL THEN Fail(s, "Symbol precision mismatch")
     ELSE IF ~(q.amount > 0) THEN Fail(s, "Output amount must be positive")
     ELSE make_outputs(make_output(s, Head(outputs), memo), Tail(outputs), memo)

\* outputSum once the loop over the outputs is through
RECURSIVE SumOutputs(_)
SumOutputs(outputs) ==
  IF outputs = <<>> THEN 0 ELSE Head(outputs).quantity.amount + SumOutputs(Tail(outputs))

\* the end of transferutxo as it would be if the fee were not paid out
settle_fees_kept(s, payer, outputSum) ==
  IF ~Ok(s) THEN s
  ELSE IF ~(s.acc.amount >= outputSum) THEN Fail(s, "Inputs don't cover outputs")
  ELSE s

\* check(inputSum >= outputSum); the fee goes to the payer
settle_fees(s, payer, outputSum) ==
  IF ~Ok(s) THEN s
  ELSE IF ~(s.acc.amount >= outputSum) THEN Fail(s, "Inputs don't cover outputs")
  ELSE IF s.acc.amount - outputSum > 0
  THEN send_inline_transfer(s, Self, Self, payer,
                            Asset(s.acc.amount - outputSum, PEOS_SYMBOL), 0)
  ELSE s

transferutxo(s, auth, payer, inputs, outputs, memo) ==
  IF ~Ok(s) THEN s
  ELSE IF payer \notin auth THEN Fail(s, "missing required authority")
  ELSE IF ~(memo <= 256) THEN Fail(s, "memo has more than 256 bytes")
  ELSE settle_fees(
         make_outputs(
           spend_inputs([s EXCEPT !.acc = Asset(0, PEOS_SYMBOL)], inputs,
                        sha256(pack(outputs))),
           outputs, memo),
         payer, SumOutputs(outputs))

loadutxo(s, auth, from, pk, quantity) ==
  LET sym == quantity.symbol
  IN IF ~Ok(s) THEN s
     ELSE IF from \notin auth THEN Fail(s, "missing required authority")
     ELSE IF ~symbol_is_valid(sym) THEN Fail(s, "invalid symbol name")
     ELSE IF ~(quantity.amount > 0) THEN Fail(s, "Must load utxo with positive quantity")
     ELSE IF ~Has(s.stat, sym.code) THEN Fail(s, "token with symbol does not exist")
     ELSE emplace_utxo(
            send_inline_transfer(s, from, from, s.stat[sym.code].issuer, quantity, 0),
            pk, quantity)

(***************************************************************************)
(* Staking, dividends, refunds                                             *)
(***************************************************************************)
\* "Your dividents from staked PEOS tokens", "PEOS tokens staked",
\* "Your unstaked PEOS tokens": the lengths of the memos
DividendMemo == 38
StakeMemo == 18
RefundMemo == 25

\* double profit = (div->totalDividendFrac - stake->lastDividendsFrac) * amount
profit_of(div, stake) ==
  FMul(FSub(div.totalDividendFrac, stake.lastDividendsFrac), FromInt(stake.quantity.amount))

\* d.totalUnclaimedDividends.amount -= profit (int64 -= double)
sub_unclaimed(amount, profit) == FTrunc(FSub(FromInt(amount), profit))

\* if (profit >= 1.0) pay (int64_t)profit from the contract to the owner
pay_dividend(s, owner, profit) ==
  IF Ok(s) /\ FGe(profit, FOne)
  THEN send_inline_transfer(s, Self, Self, owner, Asset(FTrunc(profit), PEOS_SYMBOL),
                            DividendMemo)
  ELSE s

\* a realizediv that moves lastDividendsFrac only when it pays
realizediv_paid_only(s, auth, owner) ==
  LET code == PEOS_SYMBOL.code
      k == <<owner, code>>
  IN IF ~Ok(s) THEN s
     ELSE IF owner \notin auth THEN Fail(s, "missing required authority")
     ELSE IF ~Has(s.staked, k) \/ ~Has(s.dividend, code) THEN s
     ELSE IF ~FGe(profit_of(s.dividend[code], s.staked[k]), FOne) THEN s
     ELSE pay_dividend(
            [s EXCEPT !.staked = Put(@, k,
                [@[k] EXCEPT !.lastDividendsFrac = s.dividend[code].totalDividendFrac])],
            owner, profit_of(s.dividend[code], s.staked[k]))

realizediv(s, auth, owner) ==
  LET code == PEOS_SYMBOL.code
      k == <<owner, code>>
      stake == s.staked[k]
      div == s.dividend[code]
  IN IF ~Ok(s) THEN s
     ELSE IF owner \notin auth THEN Fail(s, "missing required authority")
     ELSE IF ~Has(s.staked, k) THEN s
     ELSE IF stake.quantity.amount = 0 THEN s
     \* with no row, div is end(), which dividend.modify refuses
     ELSE IF ~Has(s.dividend, code) THEN Fail(s, "cannot pass end iterator to modify")
     ELSE pay_dividend(
            [s EXCEPT
               !.dividend = Put(@, code,
                  [div EXCEPT !.totalUnclaimedDividends =
                     Asset(sub_unclaimed(@.amount, profit_of(div, stake)), @.symbol)]),
               !.staked = Put(@, k,
                  [stake EXCEPT !.lastDividendsFrac = div.totalDividendFrac])],
            owner, profit_of(div, stake))

\* totalDividendFrac as stake reads it
pool_frac(s, code) ==
  IF Has(s.dividend, code) THEN s.dividend[code].totalDividendFrac ELSE FOne

\* a stake that leaves the dividends row as it is
stake_pool_none(s, code, quantity) == s

\* the dividends row: totalStaked += quantity, or a new row
stake_pool(s, code, quantity) ==
  IF ~Ok(s) THEN s
  ELSE IF ~Has(s.dividend, code)
  THEN [s EXCEPT !.dividend = Put(@, code,
          [totalStaked |-> quantity,
           totalDividends |-> Asset(0, PEOS_SYMBOL),
           totalUnclaimedDividends |-> Asset(0, PEOS_SYMBOL),
           totalDividendFrac |-> FOne])]
  ELSE IF s.dividend[code].totalStaked.symbol # quantity.symbol
  THEN Fail(s, "attempt to add asset with different symbol")
  ELSE [s EXCEPT !.dividend = Put(@, code,
          [@[code] EXCEPT !.totalStaked = Asset(@.amount + quantity.amount, @.symbol)])]

\* a new position that counts the dividends from the start of the pool
stake_position_from_start(s, k, quantity, totalDividendFrac) ==
  IF ~Ok(s) THEN s
  ELSE IF ~Has(s.staked, k)
  THEN [s EXCEPT !.staked = Put(@, k, [quantity |-> quantity, lastDividendsFrac |-> FOne])]
  ELSE [s EXCEPT !.staked = Put(@, k,
          [@[k] EXCEPT !.quantity = Asset(@.amount + quantity.amount, @.symbol)])]

\* the staked row: quantity += quantity with the snapshot checked, or a new row
stake_position(s, k, quantity, totalDividendFrac) ==
  IF ~Ok(s) THEN s
  ELSE IF ~Has(s.staked, k)
  THEN [s EXCEPT !.staked = Put(@, k,
          [quantity |-> quantity, lastDividendsFrac |-> totalDividendFrac])]
  ELSE IF s.staked[k].quantity.symbol # quantity.symbol
  THEN Fail(s, "attempt to add asset with different symbol")
  ELSE IF s.staked[k].lastDividendsFrac # totalDividendFrac THEN Fail(s, "Divs not realized")
  ELSE [s EXCEPT !.staked = Put(@, k,
          [@[k] EXCEPT !.quantity = Asset(@.amount + quantity.amount, @.symbol)])]

\* stake after realizediv(owner)
stake_body(s, owner, quantity) ==
  LET code == quantity.symbol.code
  IN send_inline_transfer(
       stake_position(stake_pool(s, code, quantity), <<owner, code>>, quantity,
                      pool_frac(s, code)),
       owner, owner, Self, quantity, StakeMemo)

stake(s, auth, owner, quantity) ==
  LET code == quantity.symbol.code
  IN IF ~Ok(s) THEN s
     ELSE IF owner \notin auth THEN Fail(s, "missing required authority")
     ELSE IF ~Has(s.stat, code) THEN Fail(s, "unable to find key")
     ELSE IF ~asset_is_valid(quantity) THEN Fail(s, "invalid quantity")
     ELSE IF ~(quantity.amount > 0) THEN Fail(s, "must transfer positive quantity")
     ELSE IF quantity.symbol # s.stat[code].supply.symbol
     THEN Fail(s, "symbol precision mismatch")
     ELSE stake_body(realizediv(s, auth, owner), owner, quantity)

\* if (stake->quantity <= quantity) the whole position goes
unstake_all(row, quantity) == row.quantity.amount <= quantity.amount
unstake_quantity_unclamped(row, quantity) == quantity
unstake_quantity(row, quantity) == IF unstake_all(row, quantity) THEN row.quantity ELSE quantity

\* a request that replaces the pending one
request_refund_replacing(s, t, owner, quantity) ==
  IF ~Ok(s) THEN s
  ELSE [s EXCEPT !.refunds = Put(@, owner,
          [owner |-> owner, request_time |-> t, amount |-> quantity])]

\* the refunds row: a new request, or the pending one extended and restarted
request_refund(s, t, owner, quantity) ==
  IF ~Ok(s) THEN s
  ELSE IF ~Has(s.refunds, owner)
  THEN [s EXCEPT !.refunds = Put(@, owner,
          [owner |-> owner, request_time |-> t, amount |-> quantity])]
  ELSE IF s.refunds[owner].amount.symbol # quantity.symbol
  THEN Fail(s, "attempt to add asset with different symbol")
  ELSE [s EXCEPT !.refunds = Put(@, owner,
          [@[owner] EXCEPT !.request_time = t,
                           !.amount = Asset(@.amount + quantity.amount, @.symbol)])]

\* unstake from the checks on the (clamped) quantity on
unstake_pool(s, t, owner, quantity) ==
  LET code == quantity.symbol.code
  IN IF ~Ok(s) THEN s
     ELSE IF ~Has(s.stat, code) THEN Fail(s, "unable to find key")
     ELSE IF ~asset_is_valid(quantity) THEN Fail(s, "invalid quantity")
     ELSE IF ~(quantity.amount > 0) THEN Fail(s, "must unstake positive quantity")
     ELSE IF quantity.symbol # s.stat[code].supply.symbol
     THEN Fail(s, "symbol precision mismatch")
     ELSE IF ~Has(s.dividend, code) THEN Fail(s, "cannot pass end iterator to modify")
     ELSE IF s.dividend[code].totalStaked.symbol # quantity.symbol
     THEN Fail(s, "attempt to subtract asset with different symbol")
     ELSE request_refund(
            [s EXCEPT !.dividend = Put(@, code,
               [@[code] EXCEPT !.totalStaked = Asset(@.amount - quantity.amount, @.symbol)])],
            t, owner, quantity)

\* unstake after realizediv(owner)
unstake_body(s, t, owner, quantity) ==
  LET k == <<owner, quantity.symbol.code>>
      row == s.staked[k]
  IN IF ~Ok(s) THEN s
     ELSE IF ~Has(s.staked, k) THEN Fail(s, "nothing staked")
     ELSE IF row.quantity.symbol # quantity.symbol
     THEN Fail(s, "comparison of assets with different symbols is not allowed")
     ELSE unstake_pool(
            IF unstake_all(row, quantity)
            THEN [s EXCEPT !.staked = Erase(@, k)]
            ELSE [s EXCEPT !.staked = Put(@, k,
                    [row EXCEPT !.quantity = Asset(@.amount - quantity.amount, @.symbol)])],
            t, owner, unstake_quantity(row, quantity))

unstake(s, auth, t, owner, quantity) ==
  IF ~Ok(s) THEN s
  ELSE IF owner \notin auth THEN Fail(s, "missing required authority")
  ELSE unstake_body(realizediv(s, auth, owner), t, owner, quantity)

refund(s, auth, t, owner) ==
  IF ~Ok(s) THEN s
  ELSE IF owner \notin auth THEN Fail(s, "missing required authority")
  ELSE IF ~Has(s.refunds, owner) THEN Fail(s, "refund request not found")
  ELSE IF ~(s.refunds[owner].request_time + refund_delay <= t)
  THEN Fail(s, "refund is not available yet")
  ELSE [send_inline_transfer(s, Self, Self, owner, s.refunds[owner].amount, RefundMemo)
          EXCEPT !.refunds = Erase(@, owner)]

\* a distribution that adds the quantity itself to the accumulator
distribute_pool_undivided(s, quantity) ==
  LET code == PEOS_SYMBOL.code
      div == s.dividend[code]
  IN IF ~Ok(s) THEN s
     ELSE IF ~Has(s.dividend, code) THEN s
     ELSE [s EXCEPT !.dividend = Put(@, code,
             [div EXCEPT
                !.totalUnclaimedDividends = Asset(@.amount + quantity.amount, @.symbol),
                !.totalDividends = Asset(@.amount + quantity.amount, @.symbol),
                !.totalDividendFrac = FAdd(@, FromInt(quantity.amount))])]

\* the dividends row after a distribution
distribute_pool(s, quantity) ==
  LET code == PEOS_SYMBOL.code
      div == s.dividend[code]
  IN IF ~Ok(s) THEN s
     ELSE IF quantity.symbol # PEOS_SYMBOL THEN Fail(s, "Only distribute PEOS")
     ELSE IF ~(quantity.amount > 0) THEN Fail(s, "Can't distribute negative tokens")
     ELSE IF ~Has(s.dividend, code)
     THEN [s EXCEPT !.dividend = Put(@, code,
             [totalStaked |-> Asset(0, PEOS_SYMBOL),
              totalDividends |-> Asset(0, PEOS_SYMBOL),
              totalUnclaimedDividends |-> quantity,
              totalDividendFrac |-> FOne])]
     ELSE [s EXCEPT !.dividend = Put(@, code,
             [div EXCEPT
                !.totalUnclaimedDividends = Asset(@.amount + quantity.amount, @.symbol),
                !.totalDividends =
                   IF div.totalStaked.amount > 0
                   THEN Asset(@.amount + quantity.amount, @.symbol) ELSE @,
                !.totalDividendFrac =
                   IF div.totalStaked.amount > 0
                   THEN FAdd(@, FDiv(FromInt(quantity.amount),
                                     FromInt(div.totalStaked.amount)))
                   ELSE @])]

distribute(s, auth, owner, quantity) ==
  IF ~Ok(s) THEN s
  ELSE IF owner \notin auth THEN Fail(s, "missing required authority")
  ELSE distribute_pool(send_inline_transfer(s, owner, owner, Self, quantity, 0), quantity)

(***************************************************************************)
(* Transactions.  A transaction that fails leaves every table as it was,   *)
(* and so does one that succeeds without writing: the steps are the        *)
(* transactions that change a table.  What a failing call reports is read  *)
(* off the operators above.                                                *)
(***************************************************************************)
MaxAmount == 2
MaxSupply == 10
MaxTime == 3
MaxNotes == 3
MaxDividends == 2
MaxSteps == 5

\* what the id of a new utxoglobals row may turn out to hold
JunkIds == {0, 7}

\* the tables a transaction leaves behind
TablesOf(r) ==
  <<r.stat, r.accounts, r.vest, r.utxos, r.utxoglobals, r.staked, r.dividend, r.refunds>>

Commit(r) ==
  /\ Ok(r)
  /\ TablesOf(r) # tables
  /\ stat' = r.stat
  /\ accounts' = r.accounts
  /\ vest' = r.vest
  /\ utxos' = r.utxos
  /\ utxoglobals' = r.utxoglobals
  /\ staked' = r.staked
  /\ dividend' = r.dividend
  /\ refunds' = r.refunds
  /\ notelog' = r.notelog
  /\ UNCHANGED now

\* the result of each action as a transaction on the current tables
TxCreate(auth, issuer, maximum_supply) == RunInline(create(Store, auth, issuer, maximum_supply))
TxUpdate(auth, issuer, maximum_supply) == RunInline(update(Store, auth, issuer, maximum_supply))
TxIssue(auth, to, quantity, memo) == RunInline(issue(Store, auth, now, to, quantity, memo))
TxRetire(auth, quantity, memo) == RunInline(retire(Store, auth, quantity, memo))
TxTransfer(auth, from, to, quantity, memo) ==
  RunInline(transfer(Store, auth, from, to, quantity, memo))
TxClaim(auth, owner, code) == RunInline(claim(Store, auth, owner, code))
TxRecover(auth, owner, code) == RunInline(recover(Store, auth, owner, code))
TxOpen(auth, owner, symbol, ram_payer) == RunInline(open(Store, auth, owner, symbol, ram_payer))
TxClose(auth, owner, symbol) == RunInline(close(Store, auth, owner, symbol))
TxLoadutxo(auth, from, pk, quantity, junk) ==
  RunInline(loadutxo([Store EXCEPT !.junk = junk], auth, from, pk, quantity))
TxTransferutxo(auth, payer, inputs, outputs, memo, junk) ==
  RunInline(transferutxo([Store EXCEPT !.junk = junk], auth, payer, inputs, outputs, memo))
TxStake(auth, owner, quantity) == RunInline(stake(Store, auth, owner, quantity))
TxUnstake(auth, owner, quantity) == RunInline(unstake(Store, auth, now, owner, quantity))
TxRealizediv(auth, owner) == RunInline(realizediv(Store, auth, owner))
TxRefund(auth, owner) == RunInline(refund(Store, auth, now, owner))
TxDistribute(auth, owner, quantity) == RunInline(distribute(Store, auth, owner, quantity))

Create(auth, issuer, maximum_supply) == Commit(TxCreate(auth, issuer, maximum_supply))
Update(auth, issuer, maximum_supply) == Commit(TxUpdate(auth, issuer, maximum_supply))
Issue(auth, to, quantity, memo) == Commit(TxIssue(auth, to, quantity, memo))
Retire(auth, quantity, memo) == Commit(TxRetire(auth, quantity, memo))
Transfer(auth, from, to, quantity, memo) ==
  Commit(TxTransfer(auth, from, to, quantity, memo))
Claim(auth, owner, code) == Commit(TxClaim(auth, owner, code))
Recover(auth, owner, code) == Commit(TxRecover(auth, owner, code))
Open(auth, owner, symbol, ram_payer) == Commit(TxOpen(auth, owner, symbol, ram_payer))
Close(auth, owner, symbol) == Commit(TxClose(auth, owner, symbol))
Loadutxo(auth, from, pk, quantity, junk) ==
  /\ Len(notelog) < MaxNotes
  /\ Commit(TxLoadutxo(auth, from, pk, quantity, junk))
Transferutxo(auth, payer, inputs, outputs, memo, junk) ==
  /\ Len(notelog) + Len(outputs) <= MaxNotes
  /\ Commit(TxTransferutxo(auth, payer, inputs, outputs, memo, junk))
Stake(auth, owner, quantity) == Commit(TxStake(auth, owner, quantity))
Unstake(auth, owner, quantity) == Commit(TxUnstake(auth, owner, quantity))
Realizediv(auth, owner) == Commit(TxRealizediv(auth, owner))
Refund(auth, owner) == Commit(TxRefund(auth, owner))
Distribute(auth, owner, quantity) ==
  /\ Has(dividend, PEOS_SYMBOL.code) =>
       dividend[PEOS_SYMBOL.code].totalDividends.amount + quantity.amount <= MaxDividends
  /\ Commit(TxDistribute(auth, owner, quantity))

\* the clock of the chain (now())
Tick ==
  /\ now < MaxTime
  /\ now' = now + 1
  /\ UNCHANGED <<tables, notelog, steps>>

Init ==
  /\ stat = EmptyTable
  /\ accounts = EmptyTable
  /\ vest = EmptyTable
  /\ utxos = EmptyTable
  /\ utxoglobals = EmptyTable
  /\ staked = EmptyTable
  /\ dividend = EmptyTable
  /\ refunds = EmptyTable
  /\ notelog = <<>>
  /\ now = 0
  /\ steps = 0

(***************************************************************************)
(* Spec: every action of the contract, from the empty chain                *)
(***************************************************************************)
Auths == {{n} : n \in Names}
\* the amounts of a call: the smallest and the largest
Amounts == {1, MaxAmount}
Quantities == {Asset(n, PEOS_SYMBOL) : n \in Amounts}
Supplies == {Asset(MaxAmount, PEOS_SYMBOL), Asset(MaxSupply, PEOS_SYMBOL)}

\* an input spending note id with the signature of its holder over the outputs
SignedInput(id, key, outputs) ==
  [id |-> id, sig |-> Sign256(key, sha256(sign_data(id, sha256(pack(outputs)))))]
Output(pk, account, quantity) == [pk |-> pk, account |-> account, quantity |-> quantity]
Outputs1 ==
  {<<Output(k, a, q)>> : k \in {"K1"}, a \in {NoName, Alice}, q \in Quantities}
NoteIds == 0 .. (MaxNotes - 1)

\* one of the first MaxSteps transactions of the chain
Step(A) == steps < MaxSteps /\ steps' = steps + 1 /\ A

Issuers == {Self, PEOS_MARKETING_ACCOUNT}
Vested == {PEOS_CONTRACT_ACCOUNT, PEOS_MARKETING_ACCOUNT, PEOS_TEAMFUND_ACCOUNT}
Parties == {PEOS_CONTRACT_ACCOUNT, PEOS_MARKETING_ACCOUNT, Alice}
Users == {PEOS_MARKETING_ACCOUNT}

Next ==
  \/ \E issuer \in Issuers, q \in Supplies : Step(Create({Self}, issuer, q))
  \/ \E issuer \in Issuers, q \in Supplies : Step(Update({Self}, issuer, q))
  \/ \E a \in {{i} : i \in Issuers}, to \in Vested \cup {Alice}, q \in Quantities : Step(Issue(a, to, q, 0))
  \/ \E a \in Auths, q \in Quantities : Step(Retire(a, q, 0))
  \/ \E from \in Parties, to \in Parties, q \in Quantities :
        Step(Transfer({from}, from, to, q, 0))
  \/ \E owner \in Parties : Step(Claim({owner}, owner, "PEOS"))
  \/ \E a \in Auths, owner \in Parties : Step(Recover(a, owner, "PEOS"))
  \/ \E owner \in Users : Step(Open({owner}, owner, PEOS_SYMBOL, owner))
  \/ \E owner \in Users : Step(Close({owner}, owner, PEOS_SYMBOL))
  \/ \E from \in Users, q \in Quantities, j \in JunkIds :
        Step(Loadutxo({from}, from, "K1", q, j))
  \/ \E payer \in Users, id \in NoteIds, outs \in Outputs1, j \in JunkIds :
        Step(Transferutxo({payer}, payer, <<SignedInput(id, "K1", outs)>>, outs, 0, j))
  \/ \E owner \in Users, q \in Quantities : Step(Stake({owner}, owner, q))
  \/ \E owner \in Users, q \in Quantities : Step(Unstake({owner}, owner, q))
  \/ \E owner \in Users : Step(Realizediv({owner}, owner))
  \/ \E owner \in Users : Step(Refund({owner}, owner))
  \/ \E owner \in Users, q \in Quantities : Step(Distribute({owner}, owner, q))
  \/ Tick

Spec == Init /\ [][Next]_vars

(***************************************************************************)
(* The funded chain: the token created with the contract as issuer, the    *)
(* marketing budget issued and half of it passed on to Alice, the contract *)
(* budget issued and passed on to Bob.                                     *)
(***************************************************************************)
Store0 ==
  [stat |-> EmptyTable, accounts |-> EmptyTable, vest |-> EmptyTable,
   utxos |-> EmptyTable, utxoglobals |-> EmptyTable, staked |-> EmptyTable,
   dividend |-> EmptyTable, refunds |-> EmptyTable, notelog |-> <<>>, inl |-> <<>>,
   acc |-> 0, junk |-> 0, err |-> "ok"]

Pay(s, from, to, n) == RunInline(transfer(s, {from}, from, to, Asset(n, PEOS_SYMBOL), 0))
Mint(s, to, n) == RunInline(issue(s, {Self}, 0, to, Asset(n, PEOS_SYMBOL), 0))

Funded ==
  Pay(Mint(Pay(Mint(create(Store0, {Self}, Self, Asset(MaxSupply, PEOS_SYMBOL)),
                    PEOS_MARKETING_ACCOUNT, MarketingClaimable),
               PEOS_MARKETING_ACCOUNT, Alice, MarketingClaimable \div 2),
           Self, ContractClaimable),
      Self, Bob, ContractClaimable)

InitFunded ==
  /\ Ok(Funded)
  /\ stat = Funded.stat
  /\ accounts = Funded.accounts
  /\ vest = Funded.vest
  /\ utxos = Funded.utxos
  /\ utxoglobals = Funded.utxoglobals
  /\ staked = Funded.staked
  /\ dividend = Funded.dividend
  /\ refunds = Funded.refunds
  /\ notelog = Funded.notelog
  /\ now = 0
  /\ steps = 0

\* a transaction outside the step budget
Free(A) == A /\ UNCHANGED steps

(***************************************************************************)
(* SpecUtxo: the bearer notes on the funded chain                          *)
(***************************************************************************)
OutputChoices ==
  {Output("K2", NoName, q) : q \in Quantities} \cup {Output("K1", Bob, q) : q \in Quantities}
OutputLists ==
  {<<o>> : o \in OutputChoices} \cup {<<o1, o2>> : o1 \in OutputChoices, o2 \in OutputChoices}

\* the input the holder of note id makes to spend it into outs
HolderInput(id, outs) == SignedInput(id, utxos[id].pk, outs)
HolderInputs(outs) ==
  {<<HolderInput(i, outs)>> : i \in DOMAIN utxos}
    \cup {<<HolderInput(i1, outs), HolderInput(i2, outs)>> :
            i1 \in DOMAIN utxos, i2 \in DOMAIN utxos}

NoteUsers == {Alice, Bob}

NextUtxo ==
  \/ \E from \in NoteUsers, pk \in Keys, q \in Quantities, j \in JunkIds :
        Free(Loadutxo({from}, from, pk, q, j))
  \/ \E outs \in OutputLists, j \in JunkIds : \E ins \in HolderInputs(outs) :
        Free(Transferutxo({Alice}, Alice, ins, outs, 0, j))

SpecUtxo == InitFunded /\ [][NextUtxo]_vars

(***************************************************************************)
(* SpecStake: staking, dividends and refunds on the funded chain           *)
(***************************************************************************)
Stakers == {Alice, Bob}

NextStake ==
  \/ \E owner \in Stakers, q \in Quantities : Step(Stake({owner}, owner, q))
  \/ \E owner \in Stakers, q \in Quantities : Step(Unstake({owner}, owner, q))
  \/ \E owner \in Stakers : Step(Realizediv({owner}, owner))
  \/ \E owner \in Stakers : Step(Refund({owner}, owner))
  \/ \E q \in Quantities :
        Step(Distribute({PEOS_MARKETING_ACCOUNT}, PEOS_MARKETING_ACCOUNT, q))
  \/ Tick

SpecStake == InitFunded /\ [][NextStake]_vars

(***************************************************************************)
(* SpecPool: the staking pool after its accumulator has grown.  On the     *)
(* funded chain Alice stakes one unit and then, PumpRounds times over,     *)
(* distributes the two units she has left and realizes them back: each     *)
(* round adds 2 to totalDividendFrac and leaves every balance as it was.   *)
(***************************************************************************)
PumpRounds == 2048

\* one round: distribute(alice, 2) and realizediv(alice)
PumpRound(s) ==
  RunInline(realizediv(
    RunInline(distribute(s, {Alice}, Alice, Asset(2, PEOS_SYMBOL))), {Alice}, Alice))

\* n rounds, the first half of them and then the rest
RECURSIVE Pumped(_, _)
Pumped(s, n) ==
  IF ~Ok(s) \/ n = 0 THEN s
  ELSE IF n = 1 THEN PumpRound(s)
  ELSE Pumped(Pumped(s, n \div 2), n - (n \div 2))

Grown == Pumped(RunInline(stake(Funded, {Alice}, Alice, Asset(1, PEOS_SYMBOL))), PumpRounds)

InitGrown ==
  /\ Ok(Grown)
  /\ stat = Grown.stat
  /\ accounts = Grown.accounts
  /\ vest = Grown.vest
  /\ utxos = Grown.utxos
  /\ utxoglobals = Grown.utxoglobals
  /\ staked = Grown.staked
  /\ dividend = Grown.dividend
  /\ refunds = Grown.refunds
  /\ notelog = Grown.notelog
  /\ now = 0
  /\ steps = 0

NextPool ==
  \/ \E owner \in Stakers, q \in Quantities : Step(Stake({owner}, owner, q))
  \/ \E owner \in Stakers, q \in Quantities : Step(Unstake({owner}, owner, q))
  \/ \E owner \in Stakers : Step(Realizediv({owner}, owner))
  \/ \E owner \in Stakers : Step(Refund({owner}, owner))
  \/ \E q \in Quantities :
        Step(Commit(TxDistribute({PEOS_MARKETING_ACCOUNT}, PEOS_MARKETING_ACCOUNT, q)))
  \/ Tick

SpecPool == InitGrown /\ [][NextPool]_vars

(***************************************************************************)
(* Properties                                                              *)
(***************************************************************************)
BalanceOf(s, owner) ==
  IF Has(s.accounts, <<owner, "PEOS">>) THEN s.accounts[<<owner, "PEOS">>].balance.amount
  ELSE 0
Peos(n) == Asset(n, PEOS_SYMBOL)
HasPeos == Has(stat, "PEOS")
Issuer == stat["PEOS"].issuer
Supply == stat["PEOS"].supply.amount
MaxOf == stat["PEOS"].max_supply.amount

\* C1: for every symbol 0 <= supply <= max_supply in every state the
\* contract reaches; no successful retire leaves the supply below zero and no
\* successful update leaves the maximum below the supply.
C1_SupplyWithinMax ==
  /\ \A c \in DOMAIN stat :
        0 <= stat[c].supply.amount /\ stat[c].supply.amount <= stat[c].max_supply.amount
  /\ HasPeos =>
        /\ \A n \in 1 .. MaxSupply :
              Ok(TxRetire({Issuer}, Peos(n), 0)) =>
                 TxRetire({Issuer}, Peos(n), 0).stat["PEOS"].supply.amount >= 0
        /\ \A n \in 1 .. MaxSupply, i \in Issuers :
              Ok(TxUpdate({Self}, i, Peos(n))) => Supply <= n

\* the supply has been issued up to the maximum: a further issue and an
\* update below the supply are refused
C1_Witness ==
  /\ HasPeos
  /\ Supply = MaxOf
  /\ TxIssue({Issuer}, Issuer, Peos(1), 0).err = "quantity exceeds available supply"
  /\ TxUpdate({Self}, Issuer, Peos(Supply - 1)).err
        = "max_supply must be larger that available supply"

\* the debits of C2, one action each: the owner has a balance record, the
\* amount is larger than the balance, and the call is in order otherwise
Overdrawn(r) == r.err = "overdrawn balance"
HasRecord(owner) == Has(accounts, <<owner, "PEOS">>)
Over(owner) == {Peos(BalanceOf(Store, owner) + k) : k \in Amounts}

C2_Transfer ==
  \A from \in Names : HasRecord(from) =>
     \A to \in Names \ {from}, q \in Over(from) : Overdrawn(TxTransfer({from}, from, to, q, 0))
C2_Retire ==
  (HasPeos /\ HasRecord(Issuer)) =>
     \A q \in Over(Issuer) : Overdrawn(TxRetire({Issuer}, q, 0))
\* stake pays a dividend that is due before it debits the owner
C2_Stake ==
  \A owner \in Names \ {Self} :
     (HasRecord(owner) /\ realizediv(Store, {owner}, owner).inl = <<>>) =>
        \A q \in Over(owner) : Overdrawn(TxStake({owner}, owner, q))
C2_Distribute ==
  \A owner \in Names \ {Self} : HasRecord(owner) =>
     \A q \in Over(owner) : Overdrawn(TxDistribute({owner}, owner, q))
C2_Loadutxo ==
  \A from \in Names, j \in JunkIds :
     (HasRecord(from) /\ from # Issuer /\ Ok(emplace_utxo([Store EXCEPT !.junk = j], "K1", Peos(1)))) =>
        \A q \in Over(from) : Overdrawn(TxLoadutxo({from}, from, "K1", q, j))
\* the payouts of the contract: an output of a note to an account, the
\* fee of a note, a refund that is due, a dividend that is due
C2_Transferutxo ==
  \A id \in DOMAIN utxos, to \in {Alice, Bob}, j \in JunkIds :
     (HasRecord(Self) /\ utxos[id].amount.amount > BalanceOf(Store, Self)) =>
        /\ Overdrawn(TxTransferutxo({to}, to,
              <<HolderInput(id, <<Output("K1", to, utxos[id].amount)>>)>>,
              <<Output("K1", to, utxos[id].amount)>>, 0, j))
        /\ (BalanceOf(Store, Self) = 0 /\ utxos[id].amount.amount > 1 /\ Has(utxoglobals, 0)) =>
              Overdrawn(TxTransferutxo({to}, to,
                 <<HolderInput(id, <<Output("K1", NoName, Peos(1))>>)>>,
                 <<Output("K1", NoName, Peos(1))>>, 0, j))
C2_Refund ==
  \A owner \in Names \ {Self} :
     (/\ HasRecord(Self)
      /\ Has(refunds, owner)
      /\ refunds[owner].request_time + refund_delay <= now
      /\ refunds[owner].amount.amount > BalanceOf(Store, Self)) =>
        Overdrawn(TxRefund({owner}, owner))
C2_Realizediv ==
  \A owner \in Names \ {Self} :
     (/\ HasRecord(Self)
      /\ Ok(realizediv(Store, {owner}, owner))
      /\ realizediv(Store, {owner}, owner).inl # <<>>
      /\ Head(realizediv(Store, {owner}, owner).inl).quantity.amount > BalanceOf(Store, Self)) =>
        Overdrawn(TxRealizediv({owner}, owner))

\* C2: every balance record holds an amount >= 0 in every state the
\* contract reaches, and an action that debits an owner of more than the
\* balance (transfer, retire, stake, distribute, loadutxo, and the payouts of
\* the contract in transferutxo, refund and realizediv) fails with "overdrawn
\* balance"; a failed transaction leaves the tables as they were.
C2_NoOverdraft ==
  /\ \A k \in DOMAIN accounts : accounts[k].balance.amount >= 0
  /\ C2_Transfer
  /\ C2_Retire
  /\ C2_Stake
  /\ C2_Distribute
  /\ C2_Loadutxo
  /\ C2_Transferutxo
  /\ C2_Refund
  /\ C2_Realizediv

\* an account has been debited down to nothing and a further debit is refused
C2_Witness ==
  /\ HasPeos
  /\ HasRecord(PEOS_MARKETING_ACCOUNT)
  /\ HasRecord(Alice)
  /\ BalanceOf(Store, PEOS_MARKETING_ACCOUNT) = 0
  /\ BalanceOf(Store, Alice) > 0
  /\ Overdrawn(TxTransfer({PEOS_MARKETING_ACCOUNT}, PEOS_MARKETING_ACCOUNT, Alice, Peos(1), 0))

\* the cases of C2 that take a longer run to set up
C2_CaseRefund ==
  \E owner \in Names \ {Self} :
     /\ HasRecord(Self)
     /\ Has(refunds, owner)
     /\ refunds[owner].request_time + refund_delay <= now
     /\ refunds[owner].amount.amount > BalanceOf(Store, Self)
C2_CaseRealizediv ==
  \E owner \in Names \ {Self} :
     /\ HasRecord(Self)
     /\ Ok(realizediv(Store, {owner}, owner))
     /\ realizediv(Store, {owner}, owner).inl # <<>>
     /\ Head(realizediv(Store, {owner}, owner).inl).quantity.amount > BalanceOf(Store, Self)
C2_CaseTransferutxo ==
  \E id \in DOMAIN utxos :
     HasRecord(Self) /\ utxos[id].amount.amount > BalanceOf(Store, Self)

\* what the teamvest table records for an account, and its ceiling at time t
Issued(s, account) == IF Has(s.vest, account) THEN s.vest[account].issued.amount ELSE 0
Ceiling(account, t) ==
  IF account = PEOS_MARKETING_ACCOUNT THEN MarketingClaimable
  ELSE IF account = PEOS_TEAMFUND_ACCOUNT THEN team_claimable(t)
  ELSE ContractClaimable
BudgetMessages ==
  {"pEOS marketing/operations budget claimed",
   "pEOS team can only issue their tokens over 400 days",
   "pEOS token budget for <1.0000 PEOS airdrop accounts and contracts claimed"}

\* an issue that the supply allows: refused when it takes the recorded
\* issuance above the ceiling, recorded with its quantity when it does not
WithinCeiling(r, to, n) ==
  IF Issued(Store, to) + n > Ceiling(to, now)
  THEN r.err \in BudgetMessages
  ELSE /\ Ok(r)
       /\ Issued(r, to) = Issued(Store, to) + n
       /\ \A other \in Vested \ {to} : Issued(r, other) = Issued(Store, other)

C10_Ceiling ==
  HasPeos =>
     \A to \in Vested, n \in 1 .. (MaxOf - Supply) :
        WithinCeiling(TxIssue({Issuer}, to, Peos(n), 0), to, n)

\* a step changes the record of an account only by adding what it adds to
\* the supply
C10_Grows ==
  \A a \in Vested :
     LET before == IF Has(vest, a) THEN vest[a].issued.amount ELSE 0
         after == IF Has(vest', a) THEN vest'[a].issued.amount ELSE 0
     IN \/ after = before
        \/ /\ after > before
           /\ after <= Ceiling(a, now)
           /\ stat'["PEOS"].supply.amount - (IF HasPeos THEN Supply ELSE 0) = after - before

\* C10: an issue to a vesting-capped account that would take the account's
\* recorded issuance above its ceiling at the time of the call fails with the
\* budget message of the account, the transaction (supply, balances, record)
\* being discarded; the record only grows, by exactly the quantity of each
\* successful issue to the account.
C10_BudgetCeiling == [](C10_Ceiling) /\ [][C10_Grows]_vars

\* the marketing budget has been issued in full and one unit more is refused
C10_Witness ==
  /\ HasPeos
  /\ Issued(Store, PEOS_MARKETING_ACCOUNT) = MarketingClaimable
  /\ MaxOf - Supply >= 1
  /\ TxIssue({Issuer}, PEOS_MARKETING_ACCOUNT, Peos(1), 0).err
        = "pEOS marketing/operations budget claimed"

\* the other two ceilings met
C10_CaseTeam ==
  /\ HasPeos
  /\ Issued(Store, PEOS_TEAMFUND_ACCOUNT) > 0
  /\ MaxOf - Supply >= 1
  /\ TxIssue({Issuer}, PEOS_TEAMFUND_ACCOUNT, Peos(1), 0).err
        = "pEOS team can only issue their tokens over 400 days"
C10_CaseContract ==
  /\ HasPeos
  /\ Issued(Store, PEOS_CONTRACT_ACCOUNT) > 0
  /\ MaxOf - Supply >= 1
  /\ TxIssue({Issuer}, PEOS_CONTRACT_ACCOUNT, Peos(1), 0).err
        = "pEOS token budget for <1.0000 PEOS airdrop accounts and contracts claimed"

(***************************************************************************)
(* Properties of the bearer notes (SpecUtxo)                               *)
(***************************************************************************)
SingleOutputs == {<<o>> : o \in OutputChoices}
UnknownNote(r) == r.err = "Unknown UTXO"
BadSignature(r) == r.err = "Error expected key different than recovered key"

\* how often id was given to a new note
RECURSIVE Count(_, _)
Count(log, id) ==
  IF log = <<>> THEN 0 ELSE (IF Head(log) = id THEN 1 ELSE 0) + Count(Tail(log), id)
\* the ids of the notes that were spent
Consumed == {id \in NoteIds : Count(notelog, id) > (IF Has(utxos, id) THEN 1 ELSE 0)}

\* C3: a note is spent at most once: a transferutxo that lists the same note
\* id twice fails with "Unknown UTXO" at the second occurrence, and a
\* transferutxo that names the id of a note spent by an earlier call fails
\* with "Unknown UTXO".
C3_NoDoubleSpend ==
  \A outs \in SingleOutputs, j \in JunkIds :
     /\ \A id \in DOMAIN utxos, key \in Keys :
           UnknownNote(TxTransferutxo({Alice}, Alice,
              <<HolderInput(id, outs), SignedInput(id, key, outs)>>, outs, 0, j))
     /\ \A id \in Consumed, key \in Keys :
           UnknownNote(TxTransferutxo({Alice}, Alice, <<SignedInput(id, key, outs)>>, outs, 0, j))

\* what holds of C3: the second occurrence of an id in one call, and an id
\* that no unspent note carries, are unknown
C3_SpentIsUnknown ==
  \A outs \in SingleOutputs, j \in JunkIds :
     /\ \A id \in DOMAIN utxos, key \in Keys :
           UnknownNote(TxTransferutxo({Alice}, Alice,
              <<HolderInput(id, outs), SignedInput(id, key, outs)>>, outs, 0, j))
     /\ \A id \in NoteIds \ DOMAIN utxos, key \in Keys :
           UnknownNote(TxTransferutxo({Alice}, Alice, <<SignedInput(id, key, outs)>>, outs, 0, j))

\* C6: the ids of the notes, in the order of creation, are strictly
\* increasing: no note is given an id that an earlier note had.
C6_IdsIncrease ==
  \A i \in 1 .. Len(notelog), k \in 1 .. Len(notelog) : i < k => notelog[i] < notelog[k]

\* output lists that differ from outs in the key, the account, the amount or the length
Variants(outs) ==
  {outs,
   <<Output(IF outs[1].pk = "K1" THEN "K2" ELSE "K1", outs[1].account, outs[1].quantity)>>,
   <<Output(outs[1].pk, IF outs[1].account = Bob THEN NoName ELSE Bob, outs[1].quantity)>>,
   <<Output(outs[1].pk, outs[1].account, Peos(outs[1].quantity.amount + 1))>>,
   outs \o outs}

\* the input naming note id with the signature key made for note id2 and outs2
InputFor(id, key, id2, outs2) == SignedInput(id2, key, outs2).sig
Presented(id, key, id2, outs2) == [id |-> id, sig |-> InputFor(id, key, id2, outs2)]

\* C4: a transferutxo succeeds only if every input carries the signature
\* of the key stored in the note it names over (id of that note, digest of the
\* whole output list of the call); a signature made for note n and output list
\* O, presented with another output list or for another note, is refused as a
\* bad signature.
Bound(r, outs, id, key, id2, outs2) ==
  /\ Ok(r) => (Has(utxos, id) /\ key = utxos[id].pk /\ id2 = id /\ outs2 = outs)
  /\ (Has(utxos, id) /\ (id2 # id \/ outs2 # outs)) => BadSignature(r)

C4_SignatureBinding ==
  \A outs \in SingleOutputs, id \in NoteIds, key \in Keys :
     \A id2 \in {id, (id + 1) % MaxNotes}, outs2 \in Variants(outs) :
        /\ Bound(TxTransferutxo({Alice}, Alice, <<Presented(id, key, id2, outs2)>>, outs, 0, 0),
                 outs, id, key, id2, outs2)
        /\ \A first \in DOMAIN utxos \ {id} :
              Bound(TxTransferutxo({Alice}, Alice,
                       <<HolderInput(first, outs), Presented(id, key, id2, outs2)>>, outs, 0, 0),
                    outs, id, key, id2, outs2)

\* two notes of the same key and amount exist; the holder's signature for one
\* of them and an output list spends it, and is refused for the other note
\* and for another output list
C4_Witness ==
  /\ Has(utxos, 0)
  /\ Has(utxos, 1)
  /\ utxos[0].pk = utxos[1].pk
  /\ utxos[0].amount = utxos[1].amount
  /\ Ok(TxTransferutxo({Alice}, Alice,
        <<HolderInput(0, <<Output("K2", NoName, utxos[0].amount)>>)>>,
        <<Output("K2", NoName, utxos[0].amount)>>, 0, 0))
  /\ BadSignature(TxTransferutxo({Alice}, Alice,
        <<Presented(1, utxos[0].pk, 0, <<Output("K2", NoName, utxos[0].amount)>>)>>,
        <<Output("K2", NoName, utxos[0].amount)>>, 0, 0))
  /\ BadSignature(TxTransferutxo({Alice}, Alice,
        <<HolderInput(0, <<Output("K2", NoName, utxos[0].amount)>>)>>,
        <<Output("K2", Bob, utxos[0].amount)>>, 0, 0))

\* the amounts a call moves, read off its arguments and the notes before it
RECURSIVE InputSum(_)
InputSum(ins) ==
  IF ins = <<>> THEN 0
  ELSE (IF Has(utxos, Head(ins).id) THEN utxos[Head(ins).id].amount.amount ELSE 0)
       + InputSum(Tail(ins))
RECURSIVE Credits(_, _)
Credits(outs, account) ==
  IF outs = <<>> THEN 0
  ELSE (IF Head(outs).account = account THEN Head(outs).quantity.amount ELSE 0)
       + Credits(Tail(outs), account)
IsNoteOutput(o) == o.account = NoName
NoteOutputs(outs) == SelectSeq(outs, IsNoteOutput)
InputIds(ins) == {ins[i].id : i \in DOMAIN ins}
\* the ids of the notes a transaction created, in the order of creation
NewIds(r) == SubSeq(r.notelog, Len(notelog) + 1, Len(r.notelog))

\* what a successful transferutxo leaves behind
Conserved(r, payer, ins, outs) ==
  /\ InputSum(ins) >= SumOutputs(outs)
  /\ \A x \in {Alice, Bob} :
        BalanceOf(r, x) = BalanceOf(Store, x) + Credits(outs, x)
                          + (IF x = payer THEN InputSum(ins) - SumOutputs(outs) ELSE 0)
  /\ BalanceOf(r, Self) = BalanceOf(Store, Self)
                          - (InputSum(ins) - Credits(outs, NoName))
  /\ Len(NewIds(r)) = Len(NoteOutputs(outs))
  /\ DOMAIN r.utxos = (DOMAIN utxos \ InputIds(ins)) \cup {NewIds(r)[i] : i \in DOMAIN NewIds(r)}
  /\ \A i \in DOMAIN NewIds(r) :
        /\ r.utxos[NewIds(r)[i]].pk = NoteOutputs(outs)[i].pk
        /\ r.utxos[NewIds(r)[i]].amount = NoteOutputs(outs)[i].quantity
  /\ \A id \in DOMAIN r.utxos :
        (\A i \in DOMAIN NewIds(r) : NewIds(r)[i] # id) => r.utxos[id] = utxos[id]

\* the action body up to the comparison of the sums
BeforeFees(ins, outs, j) ==
  make_outputs(spend_inputs([Store EXCEPT !.junk = j, !.acc = Peos(0)], ins,
                            sha256(pack(outs))),
               outs, 0)

\* C5: a successful transferutxo conserves value: the consumed notes sum
\* up to at least the outputs, every output becomes a new note or a credit of
\* exactly its amount, and the payer is credited exactly input_sum - output_sum;
\* with input_sum < output_sum the call fails with "Inputs don't cover outputs".
Settled(r, payer, ins, outs, j) ==
  /\ Ok(r) => Conserved(r, payer, ins, outs)
  /\ InputSum(ins) < SumOutputs(outs) =>
        (~Ok(r) /\ (Ok(BeforeFees(ins, outs, j)) => r.err = "Inputs don't cover outputs"))

C5_Conservation ==
  \A outs \in OutputLists, j \in JunkIds :
     \A ins \in HolderInputs(outs) :
        Settled(TxTransferutxo({Alice}, Alice, ins, outs, 0, j), Alice, ins, outs, j)

\* a note of two units exists: spending it into a note of one unit pays the
\* payer a fee of one unit, and three units cannot be paid out of it
C5_Witness ==
  \E id \in DOMAIN utxos :
     /\ utxos[id].amount.amount = 2
     /\ Ok(TxTransferutxo({Alice}, Alice, <<HolderInput(id, <<Output("K2", NoName, Peos(1))>>)>>,
                          <<Output("K2", NoName, Peos(1))>>, 0, 0))
     /\ BalanceOf(TxTransferutxo({Alice}, Alice,
                    <<HolderInput(id, <<Output("K2", NoName, Peos(1))>>)>>,
                    <<Output("K2", NoName, Peos(1))>>, 0, 0), Alice)
           = BalanceOf(Store, Alice) + 1
     /\ TxTransferutxo({Alice}, Alice,
           <<HolderInput(id, <<Output("K2", NoName, Peos(2)), Output("K1", Bob, Peos(1))>>)>>,
           <<Output("K2", NoName, Peos(2)), Output("K1", Bob, Peos(1))>>, 0, 0).err
           = "Inputs don't cover outputs"

\* stake and unstake as transactions on the tables a transaction left behind
StakeOn(s, owner, q) == RunInline(stake(s, {owner}, owner, q))
UnstakeOn(s, owner, q) == RunInline(unstake(s, {owner}, now, owner, q))
RealizeOn(s, owner) == RunInline(realizediv(s, {owner}, owner))
StakedOf(s, owner) ==
  IF Has(s.staked, <<owner, "PEOS">>) THEN s.staked[<<owner, "PEOS">>].quantity.amount ELSE 0
TotalStakedOf(s) ==
  IF Has(s.dividend, "PEOS") THEN s.dividend["PEOS"].totalStaked.amount ELSE 0
PendingOf(s, owner) == IF Has(s.refunds, owner) THEN s.refunds[owner].amount.amount ELSE 0
\* the dividend a realizediv(owner) pays out of the contract's balance
Paid(owner) == BalanceOf(RealizeOn(Store, owner), owner) - BalanceOf(Store, owner)

\* b is the chain after stake(owner, x) and unstake(owner, x), a after the stake
BalanceRestored(a, b, owner, x) ==
  Ok(a) =>
     /\ Ok(b)
     /\ BalanceOf(b, owner) = BalanceOf(Store, owner)
     /\ Has(b.refunds, owner)
     /\ b.refunds[owner].amount = Peos(x)

\* C7 as stated: stake(owner, X) followed at once by unstake(owner, X), with
\* no dividend in between, puts the owner's transferable balance back to its
\* value before the stake and leaves a refund request of amount X.
C7_RoundTripRestoresBalance ==
  \A owner \in Stakers, x \in Amounts :
     BalanceRestored(StakeOn(Store, owner, Peos(x)),
                     UnstakeOn(StakeOn(Store, owner, Peos(x)), owner, Peos(x)), owner, x)

QueuedForRefund(a, b, owner, x) ==
  Ok(a) =>
     /\ Ok(b)
     /\ BalanceOf(a, owner) = BalanceOf(Store, owner) + Paid(owner) - x
     /\ BalanceOf(b, owner) = BalanceOf(a, owner)
     /\ BalanceOf(b, Self) = BalanceOf(Store, Self) - Paid(owner) + x
     /\ StakedOf(b, owner) = StakedOf(Store, owner)
     /\ Has(b.staked, <<owner, "PEOS">>) = Has(staked, <<owner, "PEOS">>)
     /\ TotalStakedOf(b) = TotalStakedOf(Store)
     /\ Has(b.refunds, owner)
     /\ b.refunds[owner].amount = Peos(PendingOf(Store, owner) + x)
     /\ b.refunds[owner].request_time = now

\* C7: stake(owner, X) followed at once by unstake(owner, X), with no
\* dividend in between, leaves the owner's transferable balance X below its
\* value before the stake, counted after the dividend the stake pays out (the
\* unstake pays nothing back: the X units stay with the contract), puts the
\* owner's staked amount and the pool's total back to their values before the
\* stake, and leaves a refund request of the amount pending before plus X (X
\* when none was pending), requested now.
C7_RoundTripQueuesRefund ==
  \A owner \in Stakers, x \in Amounts :
     QueuedForRefund(StakeOn(Store, owner, Peos(x)),
                     UnstakeOn(StakeOn(Store, owner, Peos(x)), owner, Peos(x)), owner, x)

\* Alice has staked and unstaked all she had, the last time with a request
\* pending: nothing is staked, the request holds it all and the contract
\* holds the units
C7_Witness ==
  /\ ~Has(staked, <<Alice, "PEOS">>)
  /\ TotalStakedOf(Store) = 0
  /\ Has(refunds, Alice)
  /\ refunds[Alice].amount.amount = 3
  /\ refunds[Alice].request_time = now
  /\ BalanceOf(Store, Alice) = BalanceOf(Funded, Alice) - 3
  /\ BalanceOf(Store, Self) = 3

\* a staker with a dividend to collect can stake: the stake pays it out
C7_CaseDividend ==
  \E owner \in Stakers :
     Paid(owner) > 0 /\ Ok(UnstakeOn(StakeOn(Store, owner, Peos(1)), owner, Peos(1)))

\* refund as a transaction on the tables a transaction left behind
RefundOn(s, owner) == RunInline(refund(s, {owner}, now, owner))
RefundLocked(r) == r.err = "refund is not available yet"
RefundNotFound(r) == r.err = "refund request not found"
Due(owner) == refunds[owner].request_time + refund_delay <= now

\* r is the chain after refund(owner) with a request pending
RefundedOnce(r, owner) ==
  IF ~Due(owner)
  THEN RefundLocked(r) /\ TablesOf(r) = tables
  ELSE /\ Ok(r)
       /\ BalanceOf(r, owner) = BalanceOf(Store, owner) + refunds[owner].amount.amount
       /\ BalanceOf(r, Self) = BalanceOf(Store, Self) - refunds[owner].amount.amount
       /\ ~Has(r.refunds, owner)
       /\ RefundNotFound(RefundOn(r, owner))

\* C8: with a request pending, refund(owner) fails as locked and changes
\* nothing while now < request_time + refund_delay; the first refund at or
\* after that time succeeds, pays the owner exactly the amount of the request
\* out of the contract's balance and deletes the request, and a further refund
\* fails as not found.
C8_RefundTiming ==
  \A owner \in Users :
     Has(refunds, owner) /\ owner # Self => RefundedOnce(TxRefund({owner}, owner), owner)

\* a request is due and the contract's balance does not cover it
C8_CaseUnfunded ==
  \E owner \in Users :
     /\ Has(refunds, owner)
     /\ Due(owner)
     /\ BalanceOf(Store, Self) < refunds[owner].amount.amount
     /\ Overdrawn(TxRefund({owner}, owner))

\* a request is due and paid, and one is pending and locked
C8_CasePaid ==
  \E owner \in Users :
     /\ Has(refunds, owner)
     /\ Due(owner)
     /\ Ok(TxRefund({owner}, owner))
     /\ RefundNotFound(RefundOn(TxRefund({owner}, owner), owner))
C8_CaseLocked ==
  \E owner \in Users :
     Has(refunds, owner) /\ ~Due(owner) /\ RefundLocked(TxRefund({owner}, owner))

\* what does hold of refund: the timing, and the payment whenever the
\* contract's balance covers the request
RefundWhenCovered ==
  \A owner \in Users :
     (Has(refunds, owner) /\ owner # Self) =>
        IF Due(owner) /\ BalanceOf(Store, Self) < refunds[owner].amount.amount
        THEN Overdrawn(TxRefund({owner}, owner))
             \/ TxRefund({owner}, owner).err = "no balance object found"
        ELSE RefundedOnce(TxRefund({owner}, owner), owner)

\* distribute as a transaction on the current tables by the marketing account
DistributeOn(s, d) ==
  RunInline(distribute(s, {PEOS_MARKETING_ACCOUNT}, PEOS_MARKETING_ACCOUNT, Peos(d)))
\* both stakers hold a position and neither has a dividend to realize
BothStakedAndRealized ==
  \A owner \in Stakers :
     /\ Has(staked, <<owner, "PEOS">>)
     /\ staked[<<owner, "PEOS">>].lastDividendsFrac = pool_frac(Store, "PEOS")
Share(d, owner) == (d * StakedOf(Store, owner)) \div TotalStakedOf(Store)

\* r is the chain after distribute(d), a after Alice realized, b after Bob did
FairlyPaid(r, a, b, d) ==
  Ok(r) =>
     /\ Ok(a) /\ Ok(b)
     /\ TotalStakedOf(Store) = StakedOf(Store, Alice) + StakedOf(Store, Bob)
     /\ Abs((BalanceOf(a, Alice) - BalanceOf(r, Alice)) - Share(d, Alice)) <= 1
     /\ Abs((BalanceOf(b, Bob) - BalanceOf(a, Bob)) - Share(d, Bob)) <= 1
     /\ BalanceOf(a, Alice) >= BalanceOf(r, Alice)
     /\ BalanceOf(b, Bob) >= BalanceOf(a, Bob)
     /\ (BalanceOf(a, Alice) - BalanceOf(r, Alice)) + (BalanceOf(b, Bob) - BalanceOf(a, Bob)) <= d
     /\ BalanceOf(b, Self) = BalanceOf(r, Self)
           - (BalanceOf(a, Alice) - BalanceOf(r, Alice)) - (BalanceOf(b, Bob) - BalanceOf(a, Bob))

SupplyExceeded(r) == r.err = "quantity exceeds available supply"
IssuanceClosed(r) == r.err = "token issuing era finished"
SupplyOf(s) == s.stat["PEOS"].supply.amount
RoomOf(s) == s.stat["PEOS"].max_supply.amount - s.stat["PEOS"].supply.amount
IssuerOf(s) == s.stat["PEOS"].issuer
IssueOn(s, auth, to, n) == RunInline(issue(s, auth, now, to, Peos(n), 0))
\* the stores with the token: the current one, or, before the token
\* is created, the ones a create leaves
Created ==
  IF HasPeos THEN {Store}
  ELSE {create(Store, {Self}, i, q) : i \in Names, q \in Supplies}
\* the issue keeps the recorded issuance of the account within its ceiling
WithinBudget(s, to, n) == vested_account(to) /\ Issued(s, to) + n <= Ceiling(to, now)

\* r is the chain after issue(issuer, n) on s
RaisesBoth(s, r, n) ==
  /\ Ok(r)
  /\ BalanceOf(r, IssuerOf(s)) = BalanceOf(s, IssuerOf(s)) + n
  /\ SupplyOf(r) = SupplyOf(s) + n

WithIssuer ==
  IF HasPeos THEN {update(Store, {Self}, i, stat["PEOS"].max_supply) : i \in Names}
  ELSE {create(Store, {Self}, i, q) : i \in Names, q \in Supplies}
Unvested == Names \ Vested

\* r is the chain after an issue of n to an account without a budget
Closed(s, r, auth, n) ==
  /\ ~Ok(r)
  /\ (IssuerOf(s) \in auth /\ n <= RoomOf(s)) => IssuanceClosed(r)

\* the quantities of an issue: small ones, all the room there is, one unit more
IssueSizes(s) == {n \in {1, MaxAmount, RoomOf(s), RoomOf(s) + 1} : n > 0}

C12_Closed ==
  \A s \in WithIssuer :
     \A to \in Unvested, n \in IssueSizes(s) : \A a \in {{IssuerOf(s)}, {to}} :
        Closed(s, IssueOn(s, a, to, n), a, n)

\* a step that raises the supply records the same quantity for one of the
\* three accounts
C12_GrowsByBudget ==
  (HasPeos /\ stat'["PEOS"].supply.amount > Supply) =>
     \E a \in Vested :
        /\ Has(vest', a)
        /\ vest'[a].issued.amount - Issued(Store, a) = stat'["PEOS"].supply.amount - Supply
        /\ \A b \in Vested \ {a} : Has(vest', b) = Has(vest, b) /\ (Has(vest, b) => vest'[b] = vest[b])

\* C12: an issue to an account that is not one of the three accounts with
\* a budget (the issuer itself included, when it is not one of them) fails,
\* with "token issuing era finished" when it passes the checks of the
\* arguments and of the supply, and the transaction is discarded; the supply
\* grows only by issues to the three accounts.
C12_IssuanceClosed == [](C12_Closed) /\ [][C12_GrowsByBudget]_vars

\* part of the supply is issued and there is room for more: an issue of one
\* unit to Alice is refused as closed, and so is one to an issuer without a
\* budget
C12_Witness ==
  /\ HasPeos
  /\ Supply > 0
  /\ MaxOf - Supply >= 1
  /\ IssuanceClosed(TxIssue({Issuer}, Alice, Peos(1), 0))
  /\ \E s \in WithIssuer :
        IssuerOf(s) = Bob /\ IssuanceClosed(IssueOn(s, {Bob}, Bob, 1))

\* the ceiling of the team fund in whole numbers: nothing before the epoch,
\* then the share of the budget that the time passed is of the vesting period
TeamCeiling(t) ==
  IF t < base_time THEN 0
  ELSE (TeamMaxClaimable * (t - base_time)) \div (vesting_days * seconds_per_day)
TeamBudgetExceeded(r) == r.err = "pEOS team can only issue their tokens over 400 days"

\* r is the chain after an issue of n to the team fund that the supply allows
Vesting(r, n) ==
  /\ Ok(r) => Issued(Store, PEOS_TEAMFUND_ACCOUNT) + n <= TeamCeiling(now)
  /\ Issued(Store, PEOS_TEAMFUND_ACCOUNT) + n > TeamCeiling(now) => TeamBudgetExceeded(r)

\* C13: an issue to the team fund succeeds only if what the fund has been
\* issued so far plus the quantity is at most floor(budget * (now - epoch) /
\* vesting period), the ceiling being taken at the time of the call and as 0
\* before the epoch; otherwise it fails with the budget message of the team.
C13_TeamVesting ==
  HasPeos =>
     \A n \in 1 .. (MaxOf - Supply) :
        Vesting(TxIssue({Issuer}, PEOS_TEAMFUND_ACCOUNT, Peos(n), 0), n)

\* half of the vesting period has passed and the team fund has been issued
\* what has vested: one unit more is refused now and granted a day later
C13_Witness ==
  /\ HasPeos
  /\ now > base_time
  /\ now < base_time + vesting_days * seconds_per_day
  /\ Issued(Store, PEOS_TEAMFUND_ACCOUNT) > 0
  /\ Issued(Store, PEOS_TEAMFUND_ACCOUNT) = TeamCeiling(now)
  /\ MaxOf - Supply >= 1
  /\ TeamBudgetExceeded(TxIssue({Issuer}, PEOS_TEAMFUND_ACCOUNT, Peos(1), 0))
  /\ Ok(RunInline(issue(Store, {Issuer}, now + 1, PEOS_TEAMFUND_ACCOUNT, Peos(1), 0)))

\* the team fund is refused before the epoch
C13_CaseBeforeEpoch ==
  /\ HasPeos
  /\ now < base_time
  /\ MaxOf - Supply >= 1
  /\ TeamBudgetExceeded(TxIssue({Issuer}, PEOS_TEAMFUND_ACCOUNT, Peos(1), 0))

(***************************************************************************)
(* Properties of the refund queue and of the dividends (SpecStake)         *)
(***************************************************************************)
Min(a, b) == IF a <= b THEN a ELSE b
RefundAt(s, owner, t) == RunInline(refund(s, {owner}, t, owner))

\* p is the chain after a refund of the request that r holds, not locked
PaysAll(r, p, owner, sum) ==
  /\ ~RefundLocked(p)
  /\ Ok(p) => (BalanceOf(p, owner) = BalanceOf(r, owner) + sum /\ ~Has(p.refunds, owner))

\* r is the chain after unstake(owner, q)
Merged(r, owner, q, sum) ==
  Ok(r) =>
     /\ Has(r.refunds, owner)
     /\ r.refunds[owner].owner = owner
     /\ r.refunds[owner].amount = Peos(sum)
     /\ r.refunds[owner].request_time = now
     /\ \A t \in now .. (now + refund_delay - 1) : RefundLocked(RefundAt(r, owner, t))
     /\ PaysAll(r, RefundAt(r, owner, now + refund_delay), owner, sum)

\* C14: an owner has at most one refund request; an unstake made while a
\* request is pending adds the clamped quantity to it and sets its time to the
\* time of that unstake, so that a refund is locked until refund_delay after
\* the latest unstake, and a refund paid then pays the sum of the amounts.
C14_MergedRefund ==
  \A owner \in Stakers :
     /\ Has(refunds, owner) => refunds[owner].owner = owner
     /\ \A q \in Amounts :
           Merged(TxUnstake({owner}, owner, Peos(q)), owner, q,
                  PendingOf(Store, owner) + Min(q, StakedOf(Store, owner)))

\* Alice unstaked at time 0 and again at time 1: the request holds both
\* amounts, and at the time the first unstake alone would be due it is locked
C14_Witness ==
  /\ Has(refunds, Alice)
  /\ refunds[Alice].amount.amount = 2
  /\ ~Has(staked, <<Alice, "PEOS">>)
  /\ BalanceOf(Store, Alice) = BalanceOf(Funded, Alice) - 2
  /\ refunds[Alice].request_time = 1
  /\ now = refund_delay
  /\ RefundLocked(TxRefund({Alice}, Alice))
  /\ Ok(RefundAt(Store, Alice, now + 1))

\* p is the chain after a distribute of d on r and a realizediv(owner): the
\* owner is paid its share of d
ShareOfNext(r, p, owner, d) ==
  /\ Ok(p)
  /\ BalanceOf(p, owner) - BalanceOf(r, owner) <= d
  /\ Abs(BalanceOf(p, owner) - BalanceOf(r, owner)
          - (d * StakedOf(r, owner)) \div TotalStakedOf(r)) <= 1

\* r is the chain after stake(owner, q)
NothingFromThePast(r, owner, q) ==
  Ok(r) =>
     /\ Has(r.staked, <<owner, "PEOS">>)
     /\ r.staked[<<owner, "PEOS">>].lastDividendsFrac = pool_frac(r, "PEOS")
     /\ pool_frac(r, "PEOS") = pool_frac(Store, "PEOS")
     /\ StakedOf(r, owner) = StakedOf(Store, owner) + q
     /\ BalanceOf(r, owner) = BalanceOf(Store, owner) + Paid(owner) - q
     /\ ~Has(staked, <<owner, "PEOS">>) => Paid(owner) = 0
     /\ Ok(RealizeOn(r, owner))
     /\ BalanceOf(RealizeOn(r, owner), owner) = BalanceOf(r, owner)
     /\ \A d \in 1 .. BalanceOf(r, PEOS_MARKETING_ACCOUNT) :
           ShareOfNext(r, RealizeOn(DistributeOn(r, d), owner), owner, d)

\* C15: a position that a stake creates starts at the accumulator of the
\* time of the stake; a stake that adds to a position first pays what is owed
\* on the amount staked before; so a realizediv right after the stake pays
\* nothing, and what the owner is paid after the next distribution is its
\* share of that distribution alone.
C15_NoPastDividends ==
  \A owner \in Stakers, q \in Amounts :
     NothingFromThePast(TxStake({owner}, owner, Peos(q)), owner, q)

\* a distribution was made while Alice alone had staked, and Bob staked
\* after it: his position starts at the accumulator, which has moved, and he
\* has been paid nothing
C15_Witness ==
  /\ Has(staked, <<Alice, "PEOS">>)
  /\ Has(staked, <<Bob, "PEOS">>)
  /\ dividend["PEOS"].totalDividends.amount > 0
  /\ staked[<<Alice, "PEOS">>].lastDividendsFrac = FOne
  /\ staked[<<Bob, "PEOS">>].lastDividendsFrac = pool_frac(Store, "PEOS")
  /\ pool_frac(Store, "PEOS") # FOne
  /\ BalanceOf(Store, Bob) = BalanceOf(Funded, Bob) - StakedOf(Store, Bob)
  /\ Paid(Bob) = 0
  /\ Paid(Alice) > 0

\* a stake that adds to a position pays what is owed on it
C15_CaseAdds ==
  \E owner \in Stakers :
     /\ Has(staked, <<owner, "PEOS">>)
     /\ Paid(owner) > 0
     /\ Ok(TxStake({owner}, owner, Peos(1)))

UnclaimedOf(s) ==
  IF Has(s.dividend, "PEOS") THEN s.dividend["PEOS"].totalUnclaimedDividends.amount ELSE 0

\* r is the chain after realizediv(owner)
UnclaimedTracksPayout(r, owner) ==
  Ok(r) =>
     /\ UnclaimedOf(r) = UnclaimedOf(Store) - (BalanceOf(r, owner) - BalanceOf(Store, owner))
     /\ Has(staked, <<owner, "PEOS">>) =>
           r.staked[<<owner, "PEOS">>].lastDividendsFrac = pool_frac(Store, "PEOS")

\* C16: realizediv takes from totalUnclaimedDividends exactly what it
\* pays to the owner, which is nothing when less than one unit is owed: then
\* it only moves the position's lastDividendsFrac to the accumulator.
C16_UnclaimedTracksPayout ==
  \A owner \in Stakers : UnclaimedTracksPayout(TxRealizediv({owner}, owner), owner)

\* less than a unit is owed to a staker and the realizediv that pays nothing
\* lowers totalUnclaimedDividends
C16_CaseUnpaid ==
  \E owner \in Stakers :
     /\ Ok(TxRealizediv({owner}, owner))
     /\ BalanceOf(TxRealizediv({owner}, owner), owner) = BalanceOf(Store, owner)
     /\ UnclaimedOf(TxRealizediv({owner}, owner)) < UnclaimedOf(Store)

DividendsNotRealized(r) == r.err = "Divs not realized"

\* C17: no stake fails with "Divs not realized": after the realizediv at
\* the start of stake the lastDividendsFrac of an existing position equals the
\* accumulator of the pool, no stored position holding an amount of 0.
C17_AlwaysRealized ==
  /\ \A k \in DOMAIN staked : staked[k].quantity.amount > 0
  /\ \A owner \in Stakers :
        /\ (Has(staked, <<owner, "PEOS">>) /\ Ok(RealizeOn(Store, owner))) =>
              RealizeOn(Store, owner).staked[<<owner, "PEOS">>].lastDividendsFrac
                 = pool_frac(RealizeOn(Store, owner), "PEOS")
        /\ \A q \in Amounts : ~DividendsNotRealized(TxStake({owner}, owner, Peos(q)))

\* Alice holds a position that has not collected the last distribution,
\* less than a unit being owed on it, and adds to it
C17_Witness ==
  /\ Has(staked, <<Alice, "PEOS">>)
  /\ staked[<<Alice, "PEOS">>].lastDividendsFrac # pool_frac(Store, "PEOS")
  /\ Paid(Alice) = 0
  /\ Ok(TxStake({Alice}, Alice, Peos(1)))
  /\ StakedOf(TxStake({Alice}, Alice, Peos(1)), Alice) = StakedOf(Store, Alice) + 1

(***************************************************************************)
(* Conservation (Spec)                                                     *)
(***************************************************************************)
RECURSIVE SumOver(_, _)
SumOver(rows, keys) ==
  IF keys = {} THEN 0
  ELSE LET k == CHOOSE x \in keys : TRUE
       IN rows[k].balance.amount + SumOver(rows, keys \ {k})
\* the sum of the balances of a symbol
SumBalances(s, code) == SumOver(s.accounts, {k \in DOMAIN s.accounts : k[2] = code})

\* C18: for every symbol the balances of all accounts add up to the
\* supply in every state the contract reaches (issue and retire move both by
\* the same quantity, every other action leaves the sum as it is).
C18_Conservation ==
  \A code \in DOMAIN stat : SumBalances(Store, code) = stat[code].supply.amount

\* the issuer holds a record that is not claimed, and a recover of the
\* issuer's own record deletes it
C18_CaseOwnRecord ==
  /\ HasPeos
  /\ HasRecord(Issuer)
  /\ ~accounts[<<Issuer, "PEOS">>].claimed
  /\ BalanceOf(Store, Issuer) > 0
  /\ Ok(TxRecover({Issuer}, Issuer, "PEOS"))
  /\ ~Has(TxRecover({Issuer}, Issuer, "PEOS").accounts, <<Issuer, "PEOS">>)

(***************************************************************************)
(* The pool and its positions (SpecStake)                                  *)
(***************************************************************************)
RECURSIVE SumStaked(_, _)
SumStaked(s, owners) ==
  IF owners = {} THEN 0
  ELSE LET o == CHOOSE x \in owners : TRUE
       IN StakedOf(s, o) + SumStaked(s, owners \ {o})
\* the sum of staked_amount over the positions of every owner
PositionsOf(s) == SumStaked(s, {k[1] : k \in DOMAIN s.staked})

PoolMatches(s) ==
  /\ TotalStakedOf(s) = PositionsOf(s)
  /\ \A k \in DOMAIN s.staked : s.staked[k].quantity.amount > 0

\* r is the chain after stake(owner, q) on s
StakeAddsToBoth(s, r, owner, q) ==
  Ok(r) =>
    /\ StakedOf(r, owner) = StakedOf(s, owner) + q
    /\ TotalStakedOf(r) = TotalStakedOf(s) + q

\* r is the chain after unstake(owner, q) on s
UnstakeTakesFromBoth(s, r, owner, q) ==
  Ok(r) =>
    /\ StakedOf(r, owner) = StakedOf(s, owner) - Min(q, StakedOf(s, owner))
    /\ TotalStakedOf(r) = TotalStakedOf(s) - Min(q, StakedOf(s, owner))
    /\ (q >= StakedOf(s, owner)) => ~Has(r.staked, <<owner, "PEOS">>)

\* C19: in every reachable state total_staked equals the sum of
\* staked_amount over all positions; stake adds its quantity to both, unstake
\* subtracts min(requested, staked_amount) from both and removes a position
\* that reaches zero.
C19_PoolMatchesPositions ==
  /\ PoolMatches(Store)
  /\ \A owner \in Stakers, q \in Amounts :
       /\ StakeAddsToBoth(Store, StakeOn(Store, owner, Asset(q, PEOS_SYMBOL)), owner, q)
       /\ UnstakeTakesFromBoth(Store, UnstakeOn(Store, owner, Asset(q, PEOS_SYMBOL)), owner, q)

\* two owners hold positions, and one of them can unstake less than it holds
C19_Witness ==
  /\ \A owner \in Stakers : StakedOf(Store, owner) > 0
  /\ \E owner \in Stakers :
       /\ StakedOf(Store, owner) > 1
       /\ Ok(UnstakeOn(Store, owner, Asset(1, PEOS_SYMBOL)))
       /\ Has(UnstakeOn(Store, owner, Asset(1, PEOS_SYMBOL)).staked, <<owner, "PEOS">>)

\* a whole position is unstaked and its row removed
C19_CaseRemoved ==
  \E owner \in Stakers :
    /\ StakedOf(Store, owner) > 0
    /\ Ok(UnstakeOn(Store, owner, Asset(MaxAmount, PEOS_SYMBOL)))
    /\ ~Has(UnstakeOn(Store, owner, Asset(MaxAmount, PEOS_SYMBOL)).staked, <<owner, "PEOS">>)

(***************************************************************************)
(* The notes and the balance that pays them (Spec)                         *)
(***************************************************************************)
RECURSIVE SumNotes(_, _)
SumNotes(rows, ids) ==
  IF ids = {} THEN 0
  ELSE LET i == CHOOSE x \in ids : TRUE
       IN rows[i].amount.amount + SumNotes(rows, ids \ {i})
\* the sum of the amounts of the unspent notes
NotesOf(s) == SumNotes(s.utxos, DOMAIN s.utxos)
Covered(s) == BalanceOf(s, Self) >= NotesOf(s)
LacksFunds(r) == r.err \in {"overdrawn balance", "no balance object found"}

\* the holder of note id spends the whole of it to the account to
SpendOn(s, payer, id, to, j) ==
  RunInline(transferutxo([s EXCEPT !.junk = j], {payer}, payer,
    <<SignedInput(id, s.utxos[id].pk, <<Output("K1", to, s.utxos[id].amount)>>)>>,
    <<Output("K1", to, s.utxos[id].amount)>>, 0))

\* r is the chain after a spend
SpendCovered(r) == ~LacksFunds(r) /\ (Ok(r) => Covered(r))

\* r is the chain after a loadutxo on the current tables
LoadCovered(r, j) ==
  (Covered(Store) /\ Ok(r)) =>
    /\ Covered(r)
    /\ \A id \in DOMAIN r.utxos : SpendCovered(SpendOn(r, Alice, id, Alice, j))

\* C20: whoever the registered issuer is, loadutxo and transferutxo keep
\* the balance of the contract account at least the sum of the unspent notes,
\* so a correctly signed transferutxo that spends existing notes to a named
\* account never fails for lack of funds.
C20_NotesCovered ==
  /\ \A from \in {Alice, PEOS_MARKETING_ACCOUNT}, q \in Quantities, j \in JunkIds :
       LoadCovered(TxLoadutxo({from}, from, "K1", q, j), j)
  /\ Covered(Store) =>
       \A id \in DOMAIN utxos, j \in JunkIds : SpendCovered(SpendOn(Store, Alice, id, Alice, j))

\* the issuer is not the contract, a holder loads a note, and the note cannot
\* be spent to an account: the contract has no balance to pay it from
C20_CaseLacksFunds ==
  /\ HasPeos
  /\ Issuer # Self
  /\ NotesOf(Store) = 0
  /\ \E q \in Quantities, j \in JunkIds :
       /\ Ok(TxLoadutxo({Alice}, Alice, "K1", q, j))
       /\ \E id \in DOMAIN TxLoadutxo({Alice}, Alice, "K1", q, j).utxos :
            LacksFunds(SpendOn(TxLoadutxo({Alice}, Alice, "K1", q, j), Alice, id, Alice, j))

\* the issuer is the contract: the loaded note is covered and is paid out
C20_CaseIssuerIsContract ==
  /\ HasPeos
  /\ Issuer = Self
  /\ \E q \in Quantities, j \in JunkIds :
       /\ Ok(TxLoadutxo({Alice}, Alice, "K1", q, j))
       /\ Covered(TxLoadutxo({Alice}, Alice, "K1", q, j))
       /\ \E id \in DOMAIN TxLoadutxo({Alice}, Alice, "K1", q, j).utxos :
            Ok(SpendOn(TxLoadutxo({Alice}, Alice, "K1", q, j), Alice, id, Alice, j))

(***************************************************************************)
(* Solvency of the staking pool                                            *)
(***************************************************************************)
RECURSIVE SumPending(_, _)
SumPending(s, owners) ==
  IF owners = {} THEN 0
  ELSE LET o == CHOOSE x \in owners : TRUE
       IN PendingOf(s, o) + SumPending(s, owners \ {o})
\* what the contract owes: the pool's total_staked and every pending refund
OwedOf(s) == TotalStakedOf(s) + SumPending(s, DOMAIN s.refunds)
Solvent(s) == BalanceOf(s, Self) >= OwedOf(s)

\* r is the chain after a realizediv on the current tables
StaysSolvent(r) == Ok(r) => Solvent(r)

\* r is the chain after a refund that is due
RefundFunded(r) == ~LacksFunds(r)

\* C21: after any sequence of stake, unstake, refund, distribute and
\* realizediv the balance of the contract account is at least total_staked
\* plus the sum of the pending refunds (the dividends paid never exceed the
\* dividends distributed), so a refund that is due never fails for lack of
\* funds.
C21_StakingSolvency ==
  /\ Solvent(Store)
  /\ \A owner \in Stakers :
       /\ StaysSolvent(TxRealizediv({owner}, owner))
       /\ (Has(refunds, owner) /\ Due(owner)) => RefundFunded(TxRefund({owner}, owner))

\* totalDividendFrac has grown until one step of it is a whole unit: a
\* distribution of 1 to a pool of 2 raises it by 1, and the realizediv of the
\* only staker pays 2 out of the contract's balance
C21_CaseOverpaid ==
  /\ TotalStakedOf(Store) = 2
  /\ Solvent(Store)
  /\ \E owner \in Stakers :
       /\ StakedOf(Store, owner) = 2
       /\ Ok(TxRealizediv({owner}, owner))
       /\ BalanceOf(TxRealizediv({owner}, owner), owner) = BalanceOf(Store, owner) + 2
       /\ ~Solvent(TxRealizediv({owner}, owner))

(***************************************************************************)
(* The unclaimed dividends of the pool                                     *)
(***************************************************************************)
\* r is the chain after a realizediv; then owner realizes
NeverNegative(r, owner) ==
  /\ Ok(r) => UnclaimedOf(r) >= 0
  /\ Ok(RealizeOn(r, owner)) => UnclaimedOf(RealizeOn(r, owner)) >= 0

\* C22: totalUnclaimedDividends is never below zero: not in a state the
\* stakers reach by stake, distribute, realizediv and unstake, and not after
\* the realizediv calls that follow it.
C22_UnclaimedNotNegative ==
  /\ UnclaimedOf(Store) >= 0
  /\ \A first \in Stakers, owner \in Stakers :
       NeverNegative(TxRealizediv({first}, first), owner)

\* the unclaimed dividends are at zero while a whole unit is still owed to a
\* staker, whose realizediv is paid and takes them to -1
C22_CaseBelowZero ==
  \E first \in Stakers, owner \in Stakers :
    /\ Ok(TxRealizediv({first}, first))
    /\ UnclaimedOf(TxRealizediv({first}, first)) = 0
    /\ Ok(RealizeOn(TxRealizediv({first}, first), owner))
    /\ BalanceOf(RealizeOn(TxRealizediv({first}, first), owner), owner)
          = BalanceOf(TxRealizediv({first}, first), owner) + 1
    /\ UnclaimedOf(RealizeOn(TxRealizediv({first}, first), owner)) = -1

(***************************************************************************)
(* Claimed records (Spec)                                                  *)
(***************************************************************************)
Claimed(s, owner) == Has(s.accounts, <<owner, "PEOS">>) /\ s.accounts[<<owner, "PEOS">>].claimed

\* r is the chain after a transaction: the claimed record of owner is still
\* there, still claimed, and holds no less
Kept(r, owner) ==
  Ok(r) => Claimed(r, owner) /\ BalanceOf(r, owner) >= BalanceOf(Store, owner)

\* every action called with the authority of a alone leaves the record of
\* owner as Kept says (the transfers the contract sends inline carry the
\* contract's own authority, so the contract's record is left out)
KeptBy(a, owner) ==
  /\ \A issuer \in Issuers, q \in Supplies :
       /\ Kept(TxCreate({a}, issuer, q), owner)
       /\ Kept(TxUpdate({a}, issuer, q), owner)
  /\ \A to \in Names, q \in Quantities : Kept(TxIssue({a}, to, q, 0), owner)
  /\ \A q \in Quantities : Kept(TxRetire({a}, q, 0), owner)
  /\ \A from \in {a, owner}, to \in Parties, q \in Quantities :
       Kept(TxTransfer({a}, from, to, q, 0), owner)
  /\ \A o \in Parties :
       /\ Kept(TxClaim({a}, o, "PEOS"), owner)
       /\ Kept(TxRecover({a}, o, "PEOS"), owner)
       /\ Kept(TxOpen({a}, o, PEOS_SYMBOL, a), owner)
       /\ Kept(TxClose({a}, o, PEOS_SYMBOL), owner)
  /\ \A from \in {a, owner}, q \in Quantities, j \in JunkIds :
       Kept(TxLoadutxo({a}, from, "K1", q, j), owner)
  /\ \A id \in DOMAIN utxos, outs \in Outputs1, j \in JunkIds :
       Kept(TxTransferutxo({a}, a, <<SignedInput(id, "K1", outs)>>, outs, 0, j), owner)
  /\ \A o \in {a, owner} :
       /\ \A q \in Quantities :
            /\ Kept(TxStake({a}, o, q), owner)
            /\ Kept(TxUnstake({a}, o, q), owner)
            /\ Kept(TxDistribute({a}, o, q), owner)
       /\ Kept(TxRealizediv({a}, o), owner)
       /\ Kept(TxRefund({a}, o), owner)

ClaimedIsKept ==
  \A owner \in Parties \ {Self} :
     Claimed(Store, owner) => \A a \in Names \ {owner} : KeptBy(a, owner)

\* r is the chain after recover(owner) signed by the issuer
Recovered(r, owner) ==
  /\ Ok(r)
  /\ stat = r.stat
  /\ IF Claimed(Store, owner) \/ ~HasRecord(owner)
     THEN r.accounts = accounts
     ELSE /\ ~Has(r.accounts, <<owner, "PEOS">>)
          /\ BalanceOf(r, Issuer)
               = (IF owner = Issuer THEN 0 ELSE BalanceOf(Store, Issuer))
                   + BalanceOf(Store, owner)

RecoverTakesUnclaimedOnly ==
  HasPeos => \A owner \in Parties : Recovered(TxRecover({Issuer}, owner, "PEOS"), owner)

\* a step of the chain: a claimed record stays claimed while it is there, and
\* it goes only when it is empty (close)
StaysClaimed ==
  \A k \in DOMAIN accounts :
     accounts[k].claimed =>
       IF k \in DOMAIN accounts' THEN accounts'[k].claimed ELSE accounts[k].balance.amount = 0
AlwaysStaysClaimed == [][StaysClaimed]_vars

\* C23: a claimed balance record is never reduced or deleted by an
\* operation its owner did not authorize, and stays claimed until its owner
\* closes it; recover, signed by the issuer, changes a record only when it is
\* not claimed, and then moves its whole amount to the issuer and deletes it,
\* the supply unchanged.
C23_ClaimedIsSafe ==
  /\ [](ClaimedIsKept /\ RecoverTakesUnclaimedOnly)
  /\ [][StaysClaimed]_vars

\* the issuer's own record is not claimed, and the recover of it deletes the
\* record and leaves the issuer without the amount
C23_CaseIssuerRecord ==
  /\ HasPeos
  /\ HasRecord(Issuer)
  /\ ~Claimed(Store, Issuer)
  /\ BalanceOf(Store, Issuer) > 0
  /\ Ok(TxRecover({Issuer}, Issuer, "PEOS"))
  /\ BalanceOf(TxRecover({Issuer}, Issuer, "PEOS"), Issuer) = 0

\* a claimed record is left as it is by the issuer's recover
C23_CaseClaimedKept ==
  /\ HasPeos
  /\ \E owner \in Parties \ {Issuer} :
       /\ Claimed(Store, owner)
       /\ BalanceOf(Store, owner) > 0
       /\ Ok(TxRecover({Issuer}, owner, "PEOS"))
       /\ TxRecover({Issuer}, owner, "PEOS").accounts = accounts

TypeOK ==
  /\ \A c \in DOMAIN stat : stat[c].supply.amount \in Int
  /\ now \in 0 .. MaxTime

====
